---- MODULE Spec2Model ----
(***************************************************************************)
(* A model of kadem, a Kademlia DHT node for BitTorrent (JavaScript).      *)
(*                                                                         *)
(*   RoutingTable  (routing.js)  : SpecRT   - trie of K-buckets            *)
(*   closest / distance          : SpecCL   - XOR-distance ordering        *)
(*   KRPCSocket    (krpc.js)     : SpecKRPC - transactions and timeouts    *)
(*   DHT.closest_  (index.js)    : SpecLK   - iterative lookup             *)
(*                                                                         *)
(* Node IDs are Buffers.  The source compares them with the JavaScript     *)
(* relational operators, which convert a Buffer with toString() (a UTF-8   *)
(* decode) and compare the resulting strings by UTF-16 code unit; distances*)
(* are JavaScript numbers (IEEE-754 doubles).  Both conversions are        *)
(* modelled by what they do.                                               *)
(***************************************************************************)
EXTENDS Integers, Sequences, FiniteSets, TLC

VARIABLES
    \* ---- RoutingTable (routing.js) ----
    localId,        \* this.localId
    K,              \* this._K (and this.K_ of the DHT that owns the table)
    heap,           \* the Node objects ever constructed, by object identity
    nodeMap,        \* this._nodeMap, in property (insertion) order
    buckets,        \* the Bucket objects reachable from this._root, by path
    isDisposed,     \* this._isDisposed
    now,            \* Date.now(), in units of GOODNESS_TIMEOUT
    inflight,       \* _insertNode calls suspended at `await this._ping(..)`
    last,           \* what the last step did and emitted (observation only)
    misses,         \* per Node object: recordNoResponse calls since it last
                    \* responded (observation only)
    \* ---- RoutingTable.closest ----
    found,          \* the last call of closest and what it returned
    \* ---- KRPCSocket (krpc.js) ----
    RESPONSE_TIMEOUT_,  \* this.RESPONSE_TIMEOUT_
    outstanding,    \* this.outstandingTransactions_: tid -> the query whose
                    \* resolve / reject functions are registered under it
    queries,        \* the queries made so far: peer, tid, the state of the
                    \* promise query() returned, its timer, what was sent
    rpcDisposed,    \* dispose() removed the socket listeners
    rpcLast,        \* the last datagram handled (observation only)
    \* ---- DHT.closest_ (index.js) ----
    lookup,         \* the activation of closest_: its locals and its outcome
    \* ---- TokenStore (token-store.js), of the DHT and of DHTStorage ----
    secret_,        \* this.secret_ of announcedPeers_ and of store_: how
                    \* many times it has been replaced
    store_,         \* this.store_ of each: what is stored under a target
    issued,         \* the first write token handed out and the secret of
                    \* its store at that time (observation only)
    heard,          \* the last query handled (observation only)
    \* ---- DHT.get_peers, DHT.announce_peer (index.js) ----
    tracker,        \* the activation of listen, get_peers, announce_peer or
                    \* of a query to a list of peers: its
                    \* locals, the queries it sent and what it returned
    \* ---- a network of DHTs with the storage extension ----
    network,        \* by address, each node: whether it listens, the IDs
                    \* in its routing table (in the order of _nodeMap) and
                    \* the store_ of its DHTStorage
    journal         \* the puts that have completed and the last call with
                    \* what it returned (observation only)

rtVars == <<localId, K, heap, nodeMap, buckets, isDisposed, now, inflight, last,
            misses>>
clVars == <<found>>
krpcVars == <<RESPONSE_TIMEOUT_, outstanding, queries, rpcDisposed, rpcLast>>
lkVars == <<lookup>>
netVars == <<network, journal>>
inVars == <<secret_, store_, issued, heard, tracker, netVars>>
vars == <<rtVars, clVars, krpcVars, lkVars, inVars>>

(***************************************************************************)
(* Bounds of the model.                                                    *)
(***************************************************************************)
IdLen == 7          \* bytes of a node ID in the model (20 in the program)
SmallK == 1         \* options.K of the tables whose buckets fill and split
LargeK == 3         \* options.K of the tables that hold every ID in use
MaxTime == 3        \* the clock stops advancing here
MaxNodes == 3       \* Node objects constructed in one run
MaxInflight == 1    \* insertions suspended on a ping at the same time

(***************************************************************************)
(* Program constants.                                                      *)
(***************************************************************************)
GOODNESS_TIMEOUT == 1       \* 15 minutes; the unit of the model's clock
SILENCE_BEFORE_BAD == 3

Null == 0                   \* null / undefined timestamps (Date.now() > 0)

(***************************************************************************)
(* Bytes, Buffers and strings.                                             *)
(***************************************************************************)
RECURSIVE BitXor(_, _)
BitXor(a, b) ==
    IF a = 0 THEN b
    ELSE IF b = 0 THEN a
    ELSE ((a + b) % 2) + 2 * BitXor(a \div 2, b \div 2)

\* Buffer.alloc(IdLen, b)
Uniform(b) == [i \in 1..IdLen |-> b]

\* An ID with leading bytes a, b, trailing byte z and zeros between.
MkId(a, b, z) ==
    [i \in 1..IdLen |-> IF i = 1 THEN a ELSE IF i = 2 THEN b
                        ELSE IF i = IdLen THEN z ELSE 0]

REPLACEMENT == 65533        \* U+FFFD

\* UTF-16 code units of one code point.
CodeUnits(cp) ==
    IF cp < 65536 THEN <<cp>>
    ELSE <<55296 + ((cp - 65536) \div 1024), 56320 + ((cp - 65536) % 1024)>>

\* Bytes a lead byte announces after itself, and the range its first
\* continuation byte must lie in (the WHATWG UTF-8 decoder).
Utf8Needed(b) ==
    IF b >= 194 /\ b <= 223 THEN 1
    ELSE IF b >= 224 /\ b <= 239 THEN 2
    ELSE IF b >= 240 /\ b <= 244 THEN 3
    ELSE 0
Utf8Lower(b) == IF b = 224 THEN 160 ELSE IF b = 240 THEN 144 ELSE 128
Utf8Upper(b) == IF b = 237 THEN 159 ELSE IF b = 244 THEN 143 ELSE 191
Utf8LeadBits(b) ==
    IF b <= 223 THEN b - 192 ELSE IF b <= 239 THEN b - 224 ELSE b - 240

\* buf.toString(): UTF-8 decode from byte i on.  need > 0 while inside a
\* multi-byte sequence; cp accumulates its code point; lo..hi is the range
\* allowed for the next continuation byte.  An ill-formed sequence yields one
\* U+FFFD per maximal subpart and the offending byte is decoded again.
RECURSIVE Utf8From(_, _, _, _, _, _)
Utf8From(buf, i, need, cp, lo, hi) ==
    IF i > Len(buf) THEN (IF need > 0 THEN <<REPLACEMENT>> ELSE <<>>)
    ELSE LET b == buf[i] IN
      IF need = 0 THEN
        IF b <= 127 THEN <<b>> \o Utf8From(buf, i + 1, 0, 0, 128, 191)
        ELSE IF Utf8Needed(b) = 0
          THEN <<REPLACEMENT>> \o Utf8From(buf, i + 1, 0, 0, 128, 191)
        ELSE Utf8From(buf, i + 1, Utf8Needed(b), Utf8LeadBits(b),
                      Utf8Lower(b), Utf8Upper(b))
      ELSE IF b < lo \/ b > hi
        THEN <<REPLACEMENT>> \o Utf8From(buf, i, 0, 0, 128, 191)
      ELSE IF need = 1
        THEN CodeUnits(cp * 64 + (b - 128))
               \o Utf8From(buf, i + 1, 0, 0, 128, 191)
      ELSE Utf8From(buf, i + 1, need - 1, cp * 64 + (b - 128), 128, 191)

\* Buffer.prototype.toString() with no arguments
BufToString(buf) == Utf8From(buf, 1, 0, 0, 128, 191)

\* s < t on JavaScript strings: by code unit, a proper prefix is smaller.
RECURSIVE SeqLess(_, _, _)
SeqLess(s, t, i) ==
    IF i > Len(t) THEN FALSE
    ELSE IF i > Len(s) THEN TRUE
    ELSE IF s[i] < t[i] THEN TRUE
    ELSE IF s[i] > t[i] THEN FALSE
    ELSE SeqLess(s, t, i + 1)

\* a < b and a <= b on two Buffers: both operands go through ToPrimitive,
\* that is toString(), and the strings are compared.
BufLT(a, b) == SeqLess(BufToString(a), BufToString(b), 1)
BufLE(a, b) == ~SeqLess(BufToString(b), BufToString(a), 1)

\* The big-endian numeric order of two IDs (what the ID space means).
NumLT(a, b) == SeqLess(a, b, 1)
NumLE(a, b) == ~SeqLess(b, a, 1)

\* Storing x into a Uint8Array element: truncate, then modulo 256.
ToUint8(x) == x % 256

\* mid(min, max): per byte, (d + 1 - min[i]) / 2 stored into a Uint8Array
\* (the fraction is dropped), then + min[i] stored again.
MidHalf(mn, mx) ==
    LET d == mx + 1 - mn
    IN  IF d >= 0 THEN ToUint8(d \div 2) ELSE ToUint8(0 - ((0 - d) \div 2))
mid(min, max) ==
    [i \in 1..Len(max) |-> ToUint8(MidHalf(min[i], max[i]) + min[i])]

(***************************************************************************)
(* Node (routing.js).  A Node object is an index into heap; null           *)
(* timestamps are Null.  The address and token of a NodeInfo are carried   *)
(* along by the table and never read by it.                                *)
(***************************************************************************)
NewNode(id) ==
    [id |-> id, lastResponse |-> Null, lastReceivedQuery |-> Null,
     failedResponses |-> 0]

isGood(n) ==
    /\ n.lastResponse # Null
    /\ n.failedResponses < SILENCE_BEFORE_BAD
    /\ \/ n.lastResponse >= now - GOODNESS_TIMEOUT
       \/ /\ n.lastReceivedQuery # Null
          /\ n.lastReceivedQuery >= now - GOODNESS_TIMEOUT

isBad(n) == n.failedResponses >= SILENCE_BEFORE_BAD

(***************************************************************************)
(* Bucket (routing.js).  A bucket is named by its path from the root       *)
(* (0 = left, 1 = right); split says that left and right are set.          *)
(***************************************************************************)
Root == <<>>
Left(p) == Append(p, 0)
Right(p) == Append(p, 1)

NewBucket(min, max) ==
    [min |-> min, max |-> max, lastChanged |-> now, contacts |-> <<>>,
     split |-> FALSE]

(***************************************************************************)
(* this._nodeMap: an object keyed by id.toString('hex').  Hex encoding is  *)
(* one-to-one, so the key is the byte sequence; property order is          *)
(* insertion order (Object.values).                                        *)
(***************************************************************************)
NmKeys(nm) == {nm[i].key : i \in 1..Len(nm)}
NmHas(nm, k) == k \in NmKeys(nm)
NmIndex(nm, k) == CHOOSE i \in 1..Len(nm) : nm[i].key = k
NmGet(nm, k) == nm[NmIndex(nm, k)].obj
NmSet(nm, k, o) ==
    IF NmHas(nm, k) THEN [nm EXCEPT ![NmIndex(nm, k)].obj = o]
    ELSE Append(nm, [key |-> k, obj |-> o])
NmDelete(nm, k) == SelectSeq(nm, LAMBDA e : e.key # k)

\* arr.indexOf(x), 1-based; 0 when absent
IndexOf(arr, x) ==
    IF \E i \in 1..Len(arr) : arr[i] = x
    THEN CHOOSE i \in 1..Len(arr) :
            arr[i] = x /\ \A j \in 1..(i - 1) : arr[j] # x
    ELSE 0

RemoveAt(arr, i) == [j \in 1..(Len(arr) - 1) |-> IF j < i THEN arr[j] ELSE arr[j + 1]]

\* arr.splice(arr.indexOf(x), 1): indexOf gives -1 for an absent x and
\* splice(-1, 1) removes the last element.
SpliceOut(arr, x) ==
    IF Len(arr) = 0 THEN arr
    ELSE IF IndexOf(arr, x) = 0 THEN RemoveAt(arr, Len(arr))
    ELSE RemoveAt(arr, IndexOf(arr, x))

\* the contacts left in the order the bucket holds them
InBucketOrder(hp, arr) == arr

\* unknown.sort((a, b) => (a.lastResponse || 0) - (b.lastResponse || 0)):
\* a stable sort, each element placed after the last one not larger.
RECURSIVE SortByLastResponse(_, _)
SortByLastResponse(hp, arr) ==
    IF Len(arr) <= 1 THEN arr
    ELSE LET init == SortByLastResponse(hp, SubSeq(arr, 1, Len(arr) - 1))
             x == arr[Len(arr)]
             pos == Cardinality({j \in 1..Len(init) :
                        hp[init[j]].lastResponse <= hp[x].lastResponse})
         IN  SubSeq(init, 1, pos) \o <<x>> \o SubSeq(init, pos + 1, Len(init))

(***************************************************************************)
(* RoutingTable._split                                                     *)
(***************************************************************************)
\* c.equals(bucket.min) || c.equals(bucket.max): split refused
SplitRefused(b) ==
    LET c == mid(b.min, b.max) IN c = b.min \/ c = b.max

\* (node.id < c) ? bucket.left : bucket.right
SplitGoesLeft(id, c) == BufLT(id, c)

\* _split when it returns true: two children, contacts redistributed,
\* bucket.contacts = [].
Split(hp, bk, path) ==
    LET b == bk[path]
        c == mid(b.min, b.max)
        l == SelectSeq(b.contacts, LAMBDA o : SplitGoesLeft(hp[o].id, c))
        r == SelectSeq(b.contacts, LAMBDA o : ~SplitGoesLeft(hp[o].id, c))
    IN  (Left(path) :> [NewBucket(b.min, c) EXCEPT !.contacts = l])
        @@ (Right(path) :> [NewBucket(c, b.max) EXCEPT !.contacts = r])
        @@ [bk EXCEPT ![path].split = TRUE, ![path].contacts = <<>>]

(***************************************************************************)
(* RoutingTable._evict and the `replace` closure of _insertNode            *)
(***************************************************************************)
Evict(hp, bk, nm, path, o) ==
    [bk |-> [bk EXCEPT ![path].contacts = SpliceOut(@, o)],
     nm |-> NmDelete(nm, hp[o].id)]

ReplaceKeepsVictim(hp, bk, nm, path, bad, node) ==
    [bk |-> [bk EXCEPT ![path].contacts = Append(@, node),
                       ![path].lastChanged = now],
     nm |-> NmSet(nm, hp[node].id, node)]

Replace(hp, bk, nm, path, bad, node) ==
    LET e == Evict(hp, bk, nm, path, bad)
    IN  [bk |-> [e.bk EXCEPT ![path].contacts = Append(@, node),
                             ![path].lastChanged = now],
         nm |-> NmSet(e.nm, hp[node].id, node)]

(***************************************************************************)
(* RoutingTable._insertNode, up to its first await.                        *)
(* The result says where the walk ended (at), what happened there (res)    *)
(* and, when a ping was emitted, the contact pinged (check) and the        *)
(* contacts still to ping (unknown).                                       *)
(***************************************************************************)
\* bucket.min <= this.localId && this.localId < bucket.max
ContainsLocal(b) == BufLE(b.min, localId) /\ BufLT(localId, b.max)

\* line 283: (node.id <= bucket.left.max) ? bucket.left : bucket.right
WalkChild(bk, path, id) ==
    IF BufLE(id, bk[Left(path)].max) THEN Left(path) ELSE Right(path)

\* line 292: (node.id < bucket.left.max) ? bucket.left : bucket.right
AfterSplitChild(bk, path, id) ==
    IF BufLT(id, bk[Left(path)].max) THEN Left(path) ELSE Right(path)

\* the first contact of the scan that is bad, 0 when there is none
FirstBad(hp, contacts) ==
    IF \E i \in 1..Len(contacts) : isBad(hp[contacts[i]])
    THEN CHOOSE i \in 1..Len(contacts) :
            /\ isBad(hp[contacts[i]])
            /\ \A j \in 1..(i - 1) : ~isBad(hp[contacts[j]])
    ELSE 0

\* the contacts neither bad nor good, least recently responding first
Unknown(hp, contacts) ==
    SortByLastResponse(hp, SelectSeq(contacts, LAMBDA o : ~isGood(hp[o])))

EvictionSkipsBad(hp, bk, nm, path, node) ==
    LET b == bk[path]
        unknown == Unknown(hp, b.contacts)
    IN  IF Len(unknown) = 0
        THEN [bk |-> bk, nm |-> nm, res |-> "discard", at |-> path,
              check |-> 0, unknown |-> <<>>]
        ELSE [bk |-> bk, nm |-> nm, res |-> "ping", at |-> path,
              check |-> Head(unknown), unknown |-> Tail(unknown)]

\* lines 297-329: the bucket is full and was not split
Eviction(hp, bk, nm, path, node) ==
    LET b == bk[path]
        bad == FirstBad(hp, b.contacts)
        unknown == Unknown(hp, b.contacts)
    IN  IF bad # 0
        THEN LET r == Replace(hp, bk, nm, path, b.contacts[bad], node)
             IN  [bk |-> r.bk, nm |-> r.nm, res |-> "replace", at |-> path,
                  check |-> 0, unknown |-> <<>>]
        ELSE IF Len(unknown) = 0
        THEN [bk |-> bk, nm |-> nm, res |-> "discard", at |-> path,
              check |-> 0, unknown |-> <<>>]
        ELSE [bk |-> bk, nm |-> nm, res |-> "ping", at |-> path,
              check |-> Head(unknown), unknown |-> Tail(unknown)]

\* The walk of _insertNode's loop (lines 272-295) from bucket `path`: it
\* ends at a bucket with room (full = FALSE) or at a full bucket that has
\* no children and was not split (full = TRUE); bk holds the splits made
\* on the way.
RECURSIVE Walk(_, _, _, _)
Walk(hp, bk, path, node) ==
    LET b == bk[path]
        id == hp[node].id
    IN  IF Len(b.contacts) < K
        THEN [bk |-> bk, at |-> path, full |-> FALSE]
        ELSE IF b.split
        THEN Walk(hp, bk, WalkChild(bk, path, id), node)
        ELSE IF ContainsLocal(b) /\ ~SplitRefused(b)
        THEN LET bk2 == Split(hp, bk, path)
             IN  Walk(hp, bk2, AfterSplitChild(bk2, path, id), node)
        ELSE [bk |-> bk, at |-> path, full |-> TRUE]

\* lines 274-278: the bucket has space, just add it and be done
Add(bk, nm, path, id, node) ==
    [bk |-> [bk EXCEPT ![path].contacts = Append(@, node),
                       ![path].lastChanged = now],
     nm |-> NmSet(nm, id, node), res |-> "insert", at |-> path,
     check |-> 0, unknown |-> <<>>]

InsertWalk(hp, bk, nm, path, node) ==
    LET w == Walk(hp, bk, path, node)
    IN  IF ~w.full
        THEN Add(w.bk, nm, w.at, hp[node].id, node)
        ELSE Eviction(hp, w.bk, nm, w.at, node)

(***************************************************************************)
(* The RoutingTable as a state machine.                                    *)
(***************************************************************************)
MaxFail == 3        \* failedResponses stops counting here

LocalIds == {MkId(197, 38, 147)}                \* c5 26 .. 93
Ids == {MkId(60, 228, 1),                       \* 3c e4 ..
        MkId(44, 4, 2),                         \* 2c 04 ..
        MkId(225, 253, 3)}                      \* e1 fd ..

Observed(op, node, at, res, ping) ==
    [op |-> op, node |-> node, at |-> at, res |-> res, ping |-> ping]

\* a step that neither ran nor resumed an insertion
Quiet == Observed("none", 0, Root, "none", 0)

Suspended(node, r) ==
    [node |-> node, at |-> r.at, check |-> r.check, unknown |-> r.unknown,
     st |-> "wait"]

\* new RoutingTable(localId, {K: k})
NewRoutingTable(k) ==
    /\ localId \in LocalIds
    /\ K = k
    /\ now = 1
    /\ heap = <<>>
    /\ nodeMap = <<>>
    /\ buckets = (Root :> [min |-> Uniform(0), max |-> Uniform(255),
                           lastChanged |-> 1, contacts |-> <<>>,
                           split |-> FALSE])
    /\ isDisposed = FALSE
    /\ inflight = <<>>
    /\ last = Quiet
    /\ misses = <<>>

(***************************************************************************)
(* KRPC (krpc.js): peers, messages and the values a query's promise takes. *)
(* Every kind of value has one record shape; what JavaScript leaves        *)
(* undefined is a distinguished record of that shape.                      *)
(***************************************************************************)
TidSpace == 2       \* transaction IDs (4 random bytes in the program)
MaxQueries == 2     \* queries made in one run
MaxTrackerQueries == 3  \* queries made by one lookup
NumAddresses == 2   \* addresses datagrams come from

DefaultTimeout == 2     \* RESPONSE_TIMEOUT_ when no option is given, in s

Tids == 1..TidSpace
Addresses == 1..NumAddresses

\* makeNodeInfo(id, rinfo): address and port are one number in the model
NodeInfo(id, address) == [id |-> id, address |-> address]
NoId == <<>>
NoNode == NodeInfo(NoId, 0)

\* the `r` dictionary of a response: the responder's ID, the compact node
\* list when there is one (decodeRecievedNodes gives NodeInfos), and hit,
\* which stands for the entries a result callback looks for (values, v)
Payload(id, hasNodes, nodes, hit) ==
    [defined |-> TRUE, id |-> id, hasNodes |-> hasNodes, nodes |-> nodes,
     hit |-> hit]
UndefinedR ==
    [defined |-> FALSE, id |-> NoId, hasNodes |-> FALSE, nodes |-> <<>>,
     hit |-> FALSE]

Failure(message, code, detail) ==
    [message |-> message, code |-> code, detail |-> detail]
NoError == Failure("", 0, 0)
\* new Error('Timeout exceeded for transaction: ' + tstr)
TimeoutExceeded(tid) == Failure("Timeout exceeded", 0, tid)
SocketIsDisposing == Failure("Socket is disposing", 0, 0)
\* new KRPCError(code, desc.toString(), rinfo)
KRPCError(e, rinfo) == Failure(e.description, e.code, rinfo)

\* what the promise returned by query() is fulfilled with: {node, r} from
\* transact_'s resolve, {error} from query's catch of transact_'s reject
Reply(node, r) == [error |-> NoError, node |-> node, r |-> r]
Caught(err) == [error |-> err, node |-> NoNode, r |-> UndefinedR]
Pending == [state |-> "pending", value |-> Reply(NoNode, UndefinedR)]
Fulfilled(v) == [state |-> "fulfilled", value |-> v]

\* a decoded datagram {t, y, r | e | a} and the address it came from
Message(y, t, r, e, a, from) ==
    [y |-> y, t |-> t, r |-> r, e |-> e, a |-> a, from |-> from]
NoE == [code |-> 0, description |-> ""]
NoMessage == Message("", 0, UndefinedR, NoE, NoId, 0)

\* what the last step of the socket was: the datagram handled and the query
\* registered under its transaction ID, or the query timed out
Handled(op, msg, q) == [op |-> op, msg |-> msg, q |-> q]

(***************************************************************************)
(* TokenStore (token-store.js) and the handlers of incoming queries        *)
(* (index.js, storage.js).  A Buffer is its sequence of bytes.  SHA-1 and  *)
(* ed25519 are taken as ideal: a digest is the bytes hashed behind a mark  *)
(* that is no byte, a signature is its signer and message.                 *)
(***************************************************************************)
MaxRotations == 2   \* times the secret of a TokenStore is replaced

Ports == {1234, 5678}
StoreNames == {"announcedPeers_", "store_"}

\* crypto.createHash('sha1').update(..).digest(), sha1(data) of util.js
sha1(data) == <<256>> \o data

\* bencode.encode(v) of a byte string: <length>:<bytes>
bencode(v) == <<Len(v), 58>> \o v

\* the decimal digits of a byte, as characters
Decimal(n) ==
    IF n >= 10 THEN <<48 + (n \div 10), 48 + (n % 10)>> ELSE <<48 + n>>

\* the four numbers of the IPv4 address of a model address, and the string
\* rinfo.address
IpParts(a) == <<IF a = 1 THEN 12 ELSE a, 0, 0, 1>>
Ip(a) ==
    Decimal(IpParts(a)[1]) \o <<46>> \o Decimal(IpParts(a)[2]) \o <<46>>
        \o Decimal(IpParts(a)[3]) \o <<46>> \o Decimal(IpParts(a)[4])

\* makeNodeInfo(bmsg.a.id, rinfo) for the sender of a query
Requester(id, address, port) == [id |-> id, address |-> address, port |-> port]

getWriteTokenOfTarget(target, node) == sha1(target)

\* TokenStore.getWriteToken: the digest of target followed by node.address
getWriteToken(target, node) == sha1(target \o Ip(node.address))

\* TokenStore.verifyToken
verifyToken(token, target, node) == token = getWriteToken(target, node)

\* TokenStore.set
StoreSet(store, target, value, node, token) ==
    IF verifyToken(token, target, node) THEN NmSet(store, target, value)
    ELSE store

\* encodeCompactNodeInfo of index.js: four address bytes and the port,
\* big-endian (the hex string made of it is one-to-one)
encodeCompactNodeInfo(address, port) ==
    IpParts(address) \o <<port \div 256, port % 256>>

\* decodeCompactPeerInfo
decodeCompactPeerInfo(buf) ==
    [address |-> SubSeq(buf, 1, 4), port |-> buf[5] * 256 + buf[6]]

\* the arguments `a` of a query: has names the optional ones that are
\* there (salt, seq, sig)
Args(id, target, token, implied_port, port, v, k, salt, seq, sig, has) ==
    [id |-> id, target |-> target, token |-> token,
     implied_port |-> implied_port, port |-> port, v |-> v, k |-> k,
     salt |-> salt, seq |-> seq, sig |-> sig, has |-> has]

\* ed25519.sign(message, publicKey, secretKey) with the secret key of
\* `signer`, and ed25519.verify
Sign(message, signer) == <<signer, message>>
Verify(sig, message, k) == sig = Sign(message, k)

\* encodeSigData(msg): the bencoded {salt?, seq, v} without its d .. e; the
\* encoding is one-to-one on these three
encodeSigData(msg) ==
    <<IF "seq" \in msg.has THEN msg.seq ELSE 0, msg.v,
      IF "salt" \in msg.has THEN <<msg.salt>> ELSE <<>>>>

\* a stored value {k, seq, sig, salt, v}, or {v} for an immutable one
Record(k, seq, sig, salt, v, has) ==
    [k |-> k, seq |-> seq, sig |-> sig, salt |-> salt, v |-> v, has |-> has]
NoSig == Sign(<<0, <<>>, <<>>>>, <<>>)
NoRecord == Record(<<>>, 0, NoSig, <<>>, <<>>, {})

\* the dictionary r of a response: has names the entries that are there
Response(id, token, nodes, values, rec, has) ==
    [id |-> id, token |-> token, nodes |-> nodes, values |-> values,
     rec |-> rec, has |-> has]
JustId(id) == Response(id, <<>>, <<>>, <<>>, NoRecord, {})

\* what a handler did: the store it leaves, the response it returned (r)
\* or the message of the Error it threw
Returned(store, r) == [store |-> store, r |-> r, threw |-> ""]
Threw(store, message) ==
    [store |-> store, r |-> JustId(<<>>), threw |-> message]

\* DHT.handleGetPeers_: {id, token, nodes} and, when peers are stored for
\* info_hash, values
handleGetPeers_(store, id, nodes, args, node) ==
    Returned(store,
        IF NmHas(store, args.target)
        THEN Response(id, getWriteToken(args.target, node), nodes,
                      NmGet(store, args.target), NoRecord,
                      {"token", "nodes", "values"})
        ELSE Response(id, getWriteToken(args.target, node), nodes, <<>>,
                      NoRecord, {"token", "nodes"}))

handleAnnouncePeerUnverified(store, id, args, node) ==
    LET target == args.target
        peers == IF NmHas(store, target) THEN NmGet(store, target) ELSE <<>>
        peer == encodeCompactNodeInfo(node.address,
                    IF args.implied_port # 0 THEN node.port ELSE args.port)
    IN  Returned(NmSet(store, target,
                       IF IndexOf(peers, peer) = 0 THEN Append(peers, peer)
                       ELSE peers),
                 JustId(id))

\* handleAnnouncePeer_ recording args.port whatever implied_port says
handleAnnouncePeerByPort(store, id, args, node) ==
    IF ~verifyToken(args.token, args.target, node)
    THEN Threw(store, "Bad token")
    ELSE handleAnnouncePeerUnverified(store, id,
                                      [args EXCEPT !.implied_port = 0], node)

\* DHT.handleAnnouncePeer_: the Set stored under the target is created on
\* the first announcement and added to in place
handleAnnouncePeer_(store, id, args, node) ==
    IF ~verifyToken(args.token, args.target, node)
    THEN Threw(store, "Bad token")
    ELSE handleAnnouncePeerUnverified(store, id, args, node)

handleGetQueryWithoutStored(store, id, nodes, args, node) ==
    Returned(store,
        Response(id, getWriteToken(args.target, node), nodes, <<>>, NoRecord,
                 {"token", "nodes"}))

\* DHTStorage.handleGetQuery_: Object.assign({id, token, nodes}, stored)
handleGetQuery_(store, id, nodes, args, node) ==
    Returned(store,
        IF NmHas(store, args.target)
        THEN Response(id, getWriteToken(args.target, node), nodes, <<>>,
                      NmGet(store, args.target),
                      {"token", "nodes"} \cup NmGet(store, args.target).has)
        ELSE Response(id, getWriteToken(args.target, node), nodes, <<>>,
                      NoRecord, {"token", "nodes"}))

\* the target a put is stored under
PutTarget(args) ==
    IF "sig" \in args.has
    THEN sha1(IF "salt" \in args.has THEN args.k \o args.salt ELSE args.k)
    ELSE sha1(bencode(args.v))

handlePutQueryUnsigned(store, id, args, node) ==
    LET target == PutTarget(args) IN
    IF ~verifyToken(args.token, target, node) THEN Threw(store, "Bad token")
    ELSE Returned(StoreSet(store, target,
                      Record(args.k, IF "seq" \in args.has THEN args.seq ELSE 0,
                             args.sig, args.salt, args.v,
                             IF "sig" \in args.has
                             THEN {"k", "seq", "sig", "v"}
                                      \cup (args.has \cap {"salt"})
                             ELSE {"v"}),
                      node, args.token),
                  JustId(id))

\* DHTStorage.handlePutQuery_
handlePutQuery_(store, id, args, node) ==
    LET target == PutTarget(args) IN
    IF ~verifyToken(args.token, target, node) THEN Threw(store, "Bad token")
    ELSE IF "sig" \in args.has
    THEN IF ~Verify(args.sig, encodeSigData(args), args.k)
         THEN Threw(store, "Bad signature")
         ELSE Returned(StoreSet(store, target,
                           Record(args.k,
                                  IF "seq" \in args.has THEN args.seq ELSE 0,
                                  args.sig, args.salt, args.v,
                                  {"k", "seq", "sig", "v"}
                                      \cup (args.has \cap {"salt"})),
                           node, args.token),
                       JustId(id))
    ELSE Returned(StoreSet(store, target,
                      Record(<<>>, 0, NoSig, <<>>, args.v, {"v"}),
                      node, args.token),
                  JustId(id))

\* the query handled last with its arguments, what its handler did and
\* the datagram sent back (y), with the number of times the secret had been
\* replaced by then
Heard(method, target, node, token, threw, y, changed, secret, args) ==
    [method |-> method, target |-> target, node |-> node,
     token |-> token, threw |-> threw, y |-> y, changed |-> changed,
     secret |-> secret, args |-> args]

(***************************************************************************)
(* The parts of the program a specification does not run stay as they are  *)
(* after construction.                                                     *)
(***************************************************************************)
\* closest has not been called
NotAsked == [asked |-> FALSE, target |-> <<>>, n |-> 0, ids |-> <<>>]

\* new KRPCSocket(socket, {timeout: t}), no listener called yet
NewSocket(t) ==
    /\ RESPONSE_TIMEOUT_ = t
    /\ outstanding = [tid \in Tids |-> 0]
    /\ queries = <<>>
    /\ rpcDisposed = FALSE
    /\ rpcLast = Handled("none", NoMessage, 0)

NoSocket == NewSocket(DefaultTimeout)

\* closest_ has not been called
NoLookup ==
    [status |-> "idle", target |-> <<>>, method |-> "", rescb |-> FALSE,
     closest |-> <<>>, seen |-> {}, selector |-> <<>>, outcome |-> "none"]

\* neither get_peers nor announce_peer has been called: peers is the
\* object get_peers collects in, writeable the PQueue of announce_peer,
\* sent the announce_peer queries made, received the responses that came
\* in for the lookup (observation only)
NoOp ==
    [kind |-> "", status |-> "idle", target |-> <<>>, peers |-> <<>>,
     writeable |-> <<>>, sent |-> <<>>, received |-> <<>>]

\* no call of get, put or listen has returned
NoCall ==
    [op |-> "", from |-> 0, target |-> <<>>, found |-> FALSE, local |-> FALSE,
     rec |-> NoRecord, sent |-> <<>>, threw |-> ""]
NoJournal == [puts |-> <<>>, last |-> NoCall]

\* no query has been handled
NoHandler ==
    /\ secret_ = [s \in StoreNames |-> 0]
    /\ store_ = [s \in StoreNames |-> <<>>]
    /\ issued = <<>>
    /\ heard = Heard("", <<>>, Requester(<<>>, 0, 0), sha1(<<>>), "", "",
                   FALSE, 0,
                   Args(<<>>, <<>>, sha1(<<>>), 0, 0, <<>>, <<>>, <<>>, 0,
                        NoSig, {}))

\* no query has been handled, no call made, and there is no network
NoTracker ==
    /\ NoHandler
    /\ tracker = NoOp
    /\ network = <<>>
    /\ journal = NoJournal

RTInit ==
    /\ NewRoutingTable(SmallK)
    /\ found = NotAsked
    /\ NoSocket
    /\ lookup = NoLookup
    /\ NoTracker

\* _insertNode(node) called with the Node object just constructed
InsertNode(op, hp) ==
    LET node == Len(hp)
        r == InsertWalk(hp, buckets, nodeMap, Root, node)
    IN  /\ r.res = "ping" => Len(inflight) < MaxInflight
        /\ heap' = hp
        /\ misses' = Append(misses, 0)
        /\ buckets' = r.bk
        /\ nodeMap' = r.nm
        /\ inflight' = IF r.res = "ping"
                       THEN Append(inflight, Suspended(node, r)) ELSE inflight
        /\ last' = Observed(op, node, r.at, r.res, r.check)

recordQuery(id) ==
    /\ ~isDisposed
    /\ IF NmHas(nodeMap, id)
       THEN /\ heap' = [heap EXCEPT ![NmGet(nodeMap, id)].lastReceivedQuery = now]
            /\ last' = Quiet
            /\ UNCHANGED <<buckets, nodeMap, inflight, misses>>
       ELSE /\ Len(heap) < MaxNodes
            /\ InsertNode("insert",
                 Append(heap, [NewNode(id) EXCEPT !.lastReceivedQuery = now]))
    /\ UNCHANGED <<localId, K, isDisposed, now>>

\* recordResponse without `node.failedResponses = 0`
recordResponseKeepsFailures(id) ==
    /\ ~isDisposed
    /\ IF NmHas(nodeMap, id)
       THEN /\ heap' = [heap EXCEPT ![NmGet(nodeMap, id)].lastResponse = now]
            /\ misses' = [misses EXCEPT ![NmGet(nodeMap, id)] = 0]
            /\ last' = Quiet
            /\ UNCHANGED <<buckets, nodeMap, inflight>>
       ELSE /\ Len(heap) < MaxNodes
            /\ InsertNode("insert",
                 Append(heap, [NewNode(id) EXCEPT !.lastResponse = now]))
    /\ UNCHANGED <<localId, K, isDisposed, now>>

recordResponse(id) ==
    /\ ~isDisposed
    /\ IF NmHas(nodeMap, id)
       THEN /\ heap' = [heap EXCEPT ![NmGet(nodeMap, id)].lastResponse = now,
                                    ![NmGet(nodeMap, id)].failedResponses = 0]
            /\ misses' = [misses EXCEPT ![NmGet(nodeMap, id)] = 0]
            /\ last' = Quiet
            /\ UNCHANGED <<buckets, nodeMap, inflight>>
       ELSE /\ Len(heap) < MaxNodes
            /\ InsertNode("insert",
                 Append(heap, [NewNode(id) EXCEPT !.lastResponse = now]))
    /\ UNCHANGED <<localId, K, isDisposed, now>>

recordNoResponse(id) ==
    /\ ~isDisposed
    /\ IF NmHas(nodeMap, id)
       THEN /\ heap[NmGet(nodeMap, id)].failedResponses < MaxFail
            /\ heap' = [heap EXCEPT ![NmGet(nodeMap, id)].failedResponses = @ + 1]
            /\ misses' = [misses EXCEPT ![NmGet(nodeMap, id)] = @ + 1]
            /\ last' = Quiet
       ELSE /\ UNCHANGED <<heap, misses>>
            /\ last' = Quiet
    /\ UNCHANGED <<localId, K, isDisposed, now, buckets, nodeMap, inflight>>

\* _ping: the 'ping' listener calls back before the 5 s timer
PingCallback(i, responded) ==
    LET e == inflight[i] IN
    /\ e.st = "wait"
    /\ IF responded
       THEN /\ heap' = [heap EXCEPT ![e.check].lastResponse = now,
                                    ![e.check].failedResponses = 0]
            /\ misses' = [misses EXCEPT ![e.check] = 0]
       ELSE /\ heap[e.check].failedResponses < MaxFail
            /\ heap' = [heap EXCEPT ![e.check].failedResponses = @ + 1]
            /\ misses' = misses
    /\ inflight' = [inflight EXCEPT ![i].st = IF responded THEN "yes" ELSE "no"]
    /\ last' = Quiet
    /\ UNCHANGED <<localId, K, isDisposed, now, buckets, nodeMap>>

\* _ping: the 5 s timer fires first; a later callback is ignored
PingTimeout(i) ==
    LET e == inflight[i] IN
    /\ e.st = "wait"
    /\ inflight' = [inflight EXCEPT ![i].st = "no"]
    /\ last' = Quiet
    /\ UNCHANGED <<localId, K, isDisposed, now, buckets, nodeMap, heap, misses>>

\* _insertNode resumes after `await this._ping(checknode)` (lines 329-345)
Resume(i) ==
    LET e == inflight[i] IN
    /\ e.st # "wait"
    /\ IF isDisposed
       THEN /\ inflight' = RemoveAt(inflight, i)
            /\ last' = Observed("resume", e.node, e.at, "disposed", 0)
            /\ UNCHANGED <<buckets, nodeMap>>
       ELSE IF e.st = "yes"
       THEN /\ buckets' = [buckets EXCEPT ![e.at].lastChanged = now]
            /\ nodeMap' = nodeMap
            /\ IF Len(e.unknown) = 0
               THEN /\ inflight' = RemoveAt(inflight, i)
                    /\ last' = Observed("resume", e.node, e.at, "discard", 0)
               ELSE /\ inflight' = [inflight EXCEPT ![i].check = Head(e.unknown),
                                                    ![i].unknown = Tail(e.unknown),
                                                    ![i].st = "wait"]
                    /\ last' = Observed("resume", e.node, e.at, "ping", Head(e.unknown))
       ELSE LET r == Replace(heap, buckets, nodeMap, e.at, e.check, e.node)
            IN  /\ buckets' = r.bk
                /\ nodeMap' = r.nm
                /\ inflight' = RemoveAt(inflight, i)
                /\ last' = Observed("resume", e.node, e.at, "replace", 0)
    /\ UNCHANGED <<localId, K, isDisposed, now, heap, misses>>

dispose ==
    /\ ~isDisposed
    /\ isDisposed' = TRUE
    /\ buckets' = <<>>
    /\ nodeMap' = <<>>
    /\ last' = Quiet
    /\ UNCHANGED <<localId, K, now, heap, inflight, misses>>

Tick ==
    /\ now + GOODNESS_TIMEOUT + 1 <= MaxTime
    /\ now' = now + GOODNESS_TIMEOUT + 1
    /\ last' = Quiet
    /\ UNCHANGED <<localId, K, isDisposed, heap, nodeMap, buckets, inflight, misses>>

\* a step of the routing table alone
OnlyTable == UNCHANGED <<clVars, krpcVars, lkVars, inVars>>

RTNext ==
    \/ \E id \in Ids : recordQuery(id) /\ OnlyTable
    \/ \E id \in Ids : recordResponse(id) /\ OnlyTable
    \/ \E id \in Ids : recordNoResponse(id) /\ OnlyTable
    \/ \E i \in 1..Len(inflight) : \E responded \in BOOLEAN :
          PingCallback(i, responded) /\ OnlyTable
    \/ \E i \in 1..Len(inflight) : PingTimeout(i) /\ OnlyTable
    \/ \E i \in 1..Len(inflight) : Resume(i) /\ OnlyTable
    \/ dispose /\ OnlyTable
    \/ Tick /\ OnlyTable

SpecRT == RTInit /\ [][RTNext]_vars

(***************************************************************************)
(* Properties of the routing table.                                        *)
(***************************************************************************)
Paths == DOMAIN buckets
Leaves == {p \in Paths : ~buckets[p].split}
Holds(p, o) == \E j \in 1..Len(buckets[p].contacts) : buckets[p].contacts[j] = o
Holders(o) == {p \in Paths : Holds(p, o)}
\* id lies in the half-open range [min, max) of bucket p, as 160-bit numbers
InRange(id, p) == NumLE(buckets[p].min, id) /\ NumLT(id, buckets[p].max)

\* C1: every contact of the table is held by exactly one bucket, that
\* bucket is a leaf, and the contact's ID lies in the leaf's range
\* [min, max).
C1_ContactInItsLeaf ==
    \A i \in 1..Len(nodeMap) :
        /\ Cardinality(Holders(nodeMap[i].obj)) = 1
        /\ \A p \in Holders(nodeMap[i].obj) :
              p \in Leaves /\ InRange(nodeMap[i].key, p)

\* C2: every bucket is a leaf holding at most K contacts or an inner node
\* with two children and no contacts of its own.
C2_LeafOrInner ==
    \A p \in Paths :
        IF buckets[p].split
        THEN /\ Left(p) \in Paths /\ Right(p) \in Paths
             /\ buckets[p].contacts = <<>>
        ELSE /\ Left(p) \notin Paths /\ Right(p) \notin Paths
             /\ Len(buckets[p].contacts) <= K

ProbeIds == {Uniform(0), Uniform(64), Uniform(128), Uniform(255)} \cup Ids \cup LocalIds

\* C3: the ranges of the leaves partition the ID space: every ID, the
\* all-zero and the all-0xff ID included, lies in exactly one leaf range.
C3_LeavesPartition ==
    ~isDisposed =>
        \A id \in ProbeIds : Cardinality({p \in Leaves : InRange(id, p)}) = 1

\* A step in which a Node was constructed and handed to _insertNode
InsertStep == Len(heap') = Len(heap) + 1

\* o answered at some time and has since missed three or more queries in a
\* row (recordNoResponse) without answering anything
RespondedThenSilent(o) == heap[o].lastResponse # Null /\ misses[o] >= 3

C4_SilentIsBad ==
    \A o \in 1..Len(heap) : RespondedThenSilent(o) => isBad(heap[o])

C4_BadReplacedNoPing ==
    InsertStep =>
      LET new == Len(heap')
          w == Walk(heap', buckets, Root, new)
          before == w.bk[w.at].contacts
          after == buckets'[w.at].contacts
      IN  (w.full /\ \E j \in 1..Len(before) : RespondedThenSilent(before[j]))
          => /\ \E j \in 1..Len(before) :
                  /\ heap[before[j]].failedResponses >= 3
                  /\ after = Append(RemoveAt(before, j), new)
                  /\ NmHas(nodeMap', heap[before[j]].id)
                        => heap[before[j]].id = heap'[new].id
             /\ NmHas(nodeMap', heap'[new].id)
             /\ NmGet(nodeMap', heap'[new].id) = new
             /\ inflight' = inflight
             /\ last'.ping = 0

\* C4: a contact that responded once and then had recordNoResponse applied
\* three or more times in a row is bad; when a new contact arrives at the
\* full, unsplittable leaf holding it, a bad contact of that leaf is removed,
\* the new contact takes its place, and no 'ping' is emitted by the insertion.
C4_BadEvictedWithoutPing ==
    [](C4_SilentIsBad) /\ [][C4_BadReplacedNoPing]_rtVars

\* C4 witness: an insertion has just replaced a contact that had responded
\* and then missed three queries.
C4_Witness ==
    /\ last.op = "insert" /\ last.res = "replace"
    /\ NmHas(nodeMap, heap[last.node].id)
    /\ \E o \in 1..Len(heap) :
          /\ heap[o].lastResponse # Null /\ misses[o] >= 3
          /\ ~NmHas(nodeMap, heap[o].id)
          /\ ~Holds(last.at, o)

\* The insertion of node C resumes in this step after the ping of U, the
\* last contact it had to ping; U is still in the leaf and C is not in the
\* table.
ResumesAfter(i, answer) ==
    /\ ~isDisposed
    /\ inflight[i].st = answer
    /\ inflight[i].unknown = <<>>
    /\ last'.op = "resume" /\ last'.node = inflight[i].node
    /\ Holds(inflight[i].at, inflight[i].check)
    /\ NmHas(nodeMap, heap[inflight[i].check].id)
    /\ ~NmHas(nodeMap, heap[inflight[i].node].id)

C5_Alive ==
    \A i \in 1..Len(inflight) :
        ResumesAfter(i, "yes") =>
            /\ NmHas(nodeMap', heap[inflight[i].check].id)
            /\ NmGet(nodeMap', heap[inflight[i].check].id)
                  = NmGet(nodeMap, heap[inflight[i].check].id)
            /\ buckets'[inflight[i].at].contacts = buckets[inflight[i].at].contacts
            /\ ~NmHas(nodeMap', heap[inflight[i].node].id)

C5_Dead ==
    \A i \in 1..Len(inflight) :
        ResumesAfter(i, "no") =>
            /\ ~NmHas(nodeMap', heap[inflight[i].check].id)
            /\ \A p \in DOMAIN buckets' :
                  ~\E j \in 1..Len(buckets'[p].contacts) :
                        buckets'[p].contacts[j] = inflight[i].check
            /\ NmHas(nodeMap', heap[inflight[i].node].id)
            /\ NmGet(nodeMap', heap[inflight[i].node].id) = inflight[i].node
            /\ \E j \in 1..Len(buckets'[inflight[i].at].contacts) :
                  buckets'[inflight[i].at].contacts[j] = inflight[i].node

\* C5: a new contact C arrived at a full leaf that cannot be split and pinged
\* its only non-good contact U.  If the 'ping' listener answers alive, U stays
\* and C is not in the table; if it answers dead, U is removed and C is in
\* the table.
C5_PingDecides == [][C5_Alive /\ C5_Dead]_rtVars

\* C5 witness: U was reported dead and the resumed insertion has put C in
\* U's place.
C5_Witness ==
    /\ last.op = "resume" /\ last.res = "replace"
    /\ NmHas(nodeMap, heap[last.node].id)
    /\ NmGet(nodeMap, heap[last.node].id) = last.node
    /\ Holds(last.at, last.node)
    /\ Len(nodeMap) < Len(heap)

(***************************************************************************)
(* JavaScript numbers.  distance() accumulates an ID difference in a       *)
(* number, an IEEE-754 double: an integer is held exactly up to MANTISSA   *)
(* significant bits and rounded to nearest, ties to even, beyond.  A       *)
(* number is modelled by the bits of the integer it holds, most            *)
(* significant first, without leading zeros.                               *)
(***************************************************************************)
MANTISSA == 53
Infinity == <<2>>

Bits8(x) == [i \in 1..8 |-> (x \div (2 ^ (8 - i))) % 2]
Zeros(n) == [i \in 1..n |-> 0]

RECURSIVE Strip(_)
Strip(bits) ==
    IF bits = <<>> THEN bits
    ELSE IF bits[1] = 0 THEN Strip(Tail(bits)) ELSE bits

\* bits + 1
RECURSIVE Inc(_)
Inc(bits) ==
    IF bits = <<>> THEN <<1>>
    ELSE IF bits[Len(bits)] = 0 THEN [bits EXCEPT ![Len(bits)] = 1]
    ELSE Append(Inc(SubSeq(bits, 1, Len(bits) - 1)), 0)

\* the double nearest to the integer `bits`
RoundToDouble(bits) ==
    IF Len(bits) <= MANTISSA THEN bits
    ELSE LET kept == SubSeq(bits, 1, MANTISSA)
             rest == SubSeq(bits, MANTISSA + 1, Len(bits))
             more == \E i \in 2..Len(rest) : rest[i] = 1
             up == rest[1] = 1 /\ (more \/ kept[MANTISSA] = 1)
         IN  (IF up THEN Inc(kept) ELSE kept) \o Zeros(Len(rest))

\* distance * 256 + x: the product is exact, the sum is rounded
Accumulate(d, x) == RoundToDouble(Strip(d \o Bits8(x)))

\* a < b on two numbers
NumberLT(a, b) ==
    IF a = Infinity THEN FALSE
    ELSE IF b = Infinity THEN TRUE
    ELSE IF Len(a) # Len(b) THEN Len(a) < Len(b)
    ELSE SeqLess(a, b, 1)

\* distance(firstId, secondId), from byte i on with d accumulated so far
RECURSIVE DistanceFrom(_, _, _, _)
DistanceFrom(firstId, secondId, i, d) ==
    LET min == IF Len(firstId) < Len(secondId) THEN Len(firstId) ELSE Len(secondId)
        max == IF Len(firstId) < Len(secondId) THEN Len(secondId) ELSE Len(firstId)
    IN  IF i > max THEN d
        ELSE IF i <= min
        THEN DistanceFrom(firstId, secondId, i + 1,
                          Accumulate(d, BitXor(firstId[i], secondId[i])))
        ELSE DistanceFrom(firstId, secondId, i + 1, Accumulate(d, 255))

distance(firstId, secondId) == DistanceFrom(firstId, secondId, 1, <<>>)

(***************************************************************************)
(* RoutingTable.closest                                                    *)
(***************************************************************************)
\* byDist.sort((a, b) => a[0] - b[0]): a stable sort by the number a[0]
RECURSIVE SortByDist(_)
SortByDist(byDist) ==
    IF Len(byDist) <= 1 THEN byDist
    ELSE LET init == SortByDist(SubSeq(byDist, 1, Len(byDist) - 1))
             x == byDist[Len(byDist)]
             pos == Cardinality({j \in 1..Len(init) : ~NumberLT(x[1], init[j][1])})
         IN  SubSeq(init, 1, pos) \o <<x>> \o SubSeq(init, pos + 1, Len(init))

\* byDist.slice(0, n)
Slice(arr, n) == SubSeq(arr, 1, IF n < Len(arr) THEN n ELSE Len(arr))

\* closest(id, n): the Node objects, nearest first
Closest(hp, nm, id, n) ==
    LET allNodes == [i \in 1..Len(nm) |-> nm[i].obj]
        byDist == [i \in 1..Len(allNodes) |->
                      <<distance(id, hp[allNodes[i]].id), allNodes[i]>>]
        sorted == Slice(SortByDist(byDist), n)
    IN  [i \in 1..Len(sorted) |-> sorted[i][2]]

DefaultN == 10      \* closest(id, n=10)

ClIds == {MkId(128, 0, 1), MkId(128, 0, 2), MkId(1, 0, 0)}
ClTargets == {Uniform(0), MkId(128, 0, 0)}
ClCounts == {1, 2, DefaultN}

closest(id, n) ==
    /\ found' = [asked |-> TRUE, target |-> id, n |-> n,
                 ids |-> LET c == Closest(heap, nodeMap, id, n)
                         IN  [i \in 1..Len(c) |-> heap[c[i]].id]]
    /\ UNCHANGED <<rtVars, krpcVars, lkVars, inVars>>

\* the table changes: the answer closest gave is about the table before
Forget == found' = NotAsked /\ UNCHANGED <<krpcVars, lkVars, inVars>>

CLInit ==
    /\ NewRoutingTable(LargeK)
    /\ found = NotAsked
    /\ NoSocket
    /\ lookup = NoLookup
    /\ NoTracker

CLNext ==
    \/ \E id \in ClIds : recordQuery(id) /\ Forget
    \/ \E id \in ClIds : recordResponse(id) /\ Forget
    \/ \E id \in ClTargets : \E n \in ClCounts : closest(id, n)

SpecCL == CLInit /\ [][CLNext]_vars

(***************************************************************************)
(* Properties of closest.                                                  *)
(***************************************************************************)
\* the XOR of two IDs, a 160-bit number, as its bytes
Xor(a, b) == [i \in 1..Len(a) |-> BitXor(a[i], b[i])]
Nearer(target, a, b) == NumLT(Xor(target, a), Xor(target, b))

\* C6: closest(target, n) returns the min(n, table size) contacts with the
\* smallest XOR distance to target, in ascending order of distance.
C6_ClosestByXor ==
    found.asked =>
        LET table == NmKeys(nodeMap)
            ids == found.ids
            size == Cardinality(table)
        IN  /\ Len(ids) = (IF found.n < size THEN found.n ELSE size)
            /\ \A i \in 1..Len(ids) : ids[i] \in table
            /\ \A i \in 1..Len(ids) : \A j \in (i + 1)..Len(ids) :
                  Nearer(found.target, ids[i], ids[j])
            /\ \A x \in table : \A i \in 1..Len(ids) :
                  Nearer(found.target, x, ids[i])
                      => \E j \in 1..Len(ids) : ids[j] = x

(***************************************************************************)
(* KRPCSocket (krpc.js).  The methods are functions of the pair            *)
(*   s = [out |-> outstandingTransactions_, qs |-> the queries]            *)
(* so that the DHT's handlers can run them in the middle of their own      *)
(* steps.  A query is                                                      *)
(*   peer, tid  what it was sent to and under which transaction ID         *)
(*   promise    the promise query() returned                               *)
(*   calls      times the resolve / reject of transact_'s promise ran      *)
(*   sent       datagrams handed to socket.send for it                     *)
(*   timer      "none" | "armed" | "cleared" | "fired"                     *)
(*   timeouts   the peers of the 'timeout' events emitted for it           *)
(***************************************************************************)
Socket(out, qs) == [out |-> out, qs |-> qs]

\* resolve / reject of a promise: the first call decides, later calls are
\* ignored
Settle(s, q, v) ==
    Socket(s.out,
           [s.qs EXCEPT ![q].calls = @ + 1,
                        ![q].promise = IF @.state = "pending"
                                       THEN Fulfilled(v) ELSE @])

cleanUpKeepsTimer(s, q) ==
    Socket([s.out EXCEPT ![s.qs[q].tid] = 0], s.qs)

\* cleanUp: delete outstandingTransactions_[tstr]; clearTimeout(timeout)
cleanUp(s, q) ==
    Socket([s.out EXCEPT ![s.qs[q].tid] = 0],
           [s.qs EXCEPT ![q].timer = IF @ = "armed" THEN "cleared" ELSE @])

\* the functions transact_ registers: (res) => { cleanUp(); resolve(res); }
\* and (err) => { cleanUp(); reject(err); }, the latter caught by query
resolve(s, q, res) == Settle(cleanUp(s, q), q, res)

\* reject without the catch of query: the promise query returns is rejected
rejectUncaught(s, q, err) ==
    Socket(cleanUp(s, q).out,
           [cleanUp(s, q).qs EXCEPT
               ![q].calls = @ + 1,
               ![q].promise = IF @.state = "pending"
                              THEN [state |-> "rejected", value |-> Caught(err)]
                              ELSE @])

reject(s, q, err) == Settle(cleanUp(s, q), q, Caught(err))

transactWithoutTimer(s, peer, tid, ms) ==
    Socket([s.out EXCEPT ![tid] = Len(s.qs) + 1],
           Append(s.qs, [peer |-> peer, tid |-> tid, promise |-> Pending,
                         calls |-> 0, sent |-> 1, timer |-> "none",
                         timeouts |-> <<>>]))

\* transact_(peer, inner) with the transaction ID it drew: the timer is
\* set, the transaction registered and the datagram sent
transact_(s, peer, tid, ms) ==
    Socket([s.out EXCEPT ![tid] = Len(s.qs) + 1],
           Append(s.qs, [peer |-> peer, tid |-> tid, promise |-> Pending,
                         calls |-> 0, sent |-> 1,
                         timer |-> IF ms # 0 THEN "armed" ELSE "none",
                         timeouts |-> <<>>]))

\* the do-while of transact_ ends on a transaction ID not outstanding
FreeTids(s) == {tid \in Tids : s.out[tid] = 0}

TransactionOfFirst(s, tid) ==
    IF \E t \in Tids : s.out[t] # 0
    THEN s.out[CHOOSE t \in Tids : s.out[t] # 0 /\ \A u \in Tids : s.out[u] # 0 => t <= u]
    ELSE 0

\* this.outstandingTransactions_[tid]: the query registered, 0 for none
TransactionOf(s, tid) == s.out[tid]

\* handleMessage_ for 'r' and 'e'.  A response without an r dictionary
\* throws at r.nodes before anything is resolved.
HandleReply(s, msg) ==
    LET q == TransactionOf(s, msg.t)
    IN  IF s.out[msg.t] = 0 THEN s
        ELSE IF msg.y = "r"
        THEN IF ~msg.r.defined THEN s
             ELSE resolve(s, q, Reply(NodeInfo(msg.r.id, msg.from), msg.r))
        ELSE reject(s, q, KRPCError(msg.e, msg.from))

OnTimeoutRetries(s, q) ==
    Socket(s.out, [s.qs EXCEPT ![q].timeouts = Append(@, s.qs[q].peer),
                               ![q].sent = @ + 1])

\* the timer of transact_: emit('timeout', peer); cleanUp(); reject(..)
OnTimeout(s, q) ==
    LET fired == Socket(s.out,
                        [s.qs EXCEPT ![q].timeouts = Append(@, s.qs[q].peer),
                                     ![q].timer = "fired"])
    IN  Settle(cleanUp(fired, q), q, Caught(TimeoutExceeded(s.qs[q].tid)))

\* dispose: clearTimeout and reject for every outstanding transaction
RECURSIVE DisposeFrom(_, _)
DisposeFrom(s, tid) ==
    IF tid > TidSpace THEN s
    ELSE IF s.out[tid] = 0 THEN DisposeFrom(s, tid + 1)
    ELSE DisposeFrom(reject(s, s.out[tid], SocketIsDisposing), tid + 1)

DisposeWithoutReject(s) == Socket([tid \in Tids |-> 0], s.qs)

Dispose(s) == Socket([tid \in Tids |-> 0], DisposeFrom(s, 1).qs)

(***************************************************************************)
(* The KRPCSocket on its own, with no listener on its events: the peers    *)
(* answer, or not, with any datagram from any address at any time.         *)
(***************************************************************************)
ResponseTimeouts == {0, 1}          \* the option `timeout`, 0 for none

KIds == {MkId(1, 0, 0), MkId(2, 0, 0)}
KPeers == {NodeInfo(NoId, a) : a \in Addresses}
KPayloads == {Payload(id, FALSE, <<>>, FALSE) : id \in KIds}
KErrors == {[code |-> 201, description |-> "Generic Error"]}

KMessages ==
    {Message("r", t, r, NoE, NoId, from) :
        t \in Tids, r \in KPayloads \cup {UndefinedR}, from \in Addresses}
    \cup {Message("e", t, UndefinedR, e, NoId, from) :
        t \in Tids, e \in KErrors, from \in Addresses}
    \cup {Message("q", t, UndefinedR, NoE, id, from) :
        t \in Tids, id \in KIds, from \in {1}}

Now(s) ==
    /\ outstanding' = s.out
    /\ queries' = s.qs

Here == Socket(outstanding, queries)

OnlySocket == UNCHANGED <<rtVars, clVars, lkVars, inVars>>

query(peer, tid) ==
    /\ Len(queries) < MaxQueries
    /\ tid \in FreeTids(Here)
    /\ Now(transact_(Here, peer, tid, RESPONSE_TIMEOUT_))
    /\ rpcLast' = Handled("query", NoMessage, Len(queries) + 1)
    /\ UNCHANGED <<RESPONSE_TIMEOUT_, rpcDisposed>>

handleMessage_(msg) ==
    /\ ~rpcDisposed
    /\ IF msg.y \in {"r", "e"}
       THEN /\ Now(HandleReply(Here, msg))
            /\ rpcLast' = Handled("message", msg, outstanding[msg.t])
       ELSE /\ UNCHANGED <<outstanding, queries>>
            /\ rpcLast' = Handled("message", msg, 0)
    /\ UNCHANGED <<RESPONSE_TIMEOUT_, rpcDisposed>>

timeout(q) ==
    /\ queries[q].timer = "armed"
    /\ Now(OnTimeout(Here, q))
    /\ rpcLast' = Handled("timeout", NoMessage, q)
    /\ UNCHANGED <<RESPONSE_TIMEOUT_, rpcDisposed>>

socketDispose ==
    /\ ~rpcDisposed
    /\ Now(Dispose(Here))
    /\ rpcDisposed' = TRUE
    /\ rpcLast' = Handled("dispose", NoMessage, 0)
    /\ UNCHANGED RESPONSE_TIMEOUT_

KRPCInit ==
    /\ NewRoutingTable(LargeK)
    /\ found = NotAsked
    /\ \E t \in ResponseTimeouts : NewSocket(t)
    /\ lookup = NoLookup
    /\ NoTracker

KRPCNext ==
    \/ \E peer \in KPeers : \E tid \in Tids : query(peer, tid) /\ OnlySocket
    \/ \E msg \in KMessages : handleMessage_(msg) /\ OnlySocket
    \/ \E q \in 1..Len(queries) : timeout(q) /\ OnlySocket
    \/ socketDispose /\ OnlySocket

SpecKRPC == KRPCInit /\ [][KRPCNext]_vars

(***************************************************************************)
(* Properties of the KRPCSocket.                                           *)
(***************************************************************************)
Qs == 1..Len(queries)
IsPending(q) == queries[q].promise.state = "pending"
IsOutstanding(q) == outstanding[queries[q].tid] = q

\* C7: a query nobody answered before its (non-zero) timeout ran out is
\* completed with a 'Timeout exceeded' error; exactly one 'timeout' event
\* was emitted for it, for the peer queried, and its datagram was sent
\* exactly once.  While a query waits, its timer is armed.
C7_TimeoutFailsOnce ==
    \A q \in Qs :
        /\ (RESPONSE_TIMEOUT_ # 0 /\ IsPending(q)) => queries[q].timer = "armed"
        /\ (queries[q].timer = "fired" \/ queries[q].timeouts # <<>>) =>
              /\ queries[q].promise
                    = Fulfilled(Caught(TimeoutExceeded(queries[q].tid)))
              /\ queries[q].timeouts = <<queries[q].peer>>
              /\ queries[q].sent = 1

\* C7 witness: a query has just timed out
C7_Witness ==
    /\ rpcLast.op = "timeout"
    /\ queries[rpcLast.q].promise.value.error.message = "Timeout exceeded"
    /\ queries[rpcLast.q].timeouts = <<queries[rpcLast.q].peer>>
    /\ queries[rpcLast.q].sent = 1

\* the step handles a response carrying an r dictionary under a
\* transaction ID that is outstanding
AnswersOutstanding ==
    /\ rpcLast'.op = "message"
    /\ rpcLast'.msg.y = "r"
    /\ rpcLast'.msg.r.defined
    /\ outstanding[rpcLast'.msg.t] # 0

ResolvesItsQuery ==
    AnswersOutstanding =>
        LET msg == rpcLast'.msg
            q == outstanding[msg.t]
        IN  /\ IsPending(q)
            /\ queries[q].tid = msg.t
            /\ queries'[q].promise
                  = Fulfilled(Reply(NodeInfo(msg.r.id, msg.from), msg.r))
            /\ Len(queries') = Len(queries)
            /\ \A p \in Qs \ {q} : queries'[p] = queries[p]
            /\ \A t \in Tids \ {msg.t} : outstanding'[t] = outstanding[t]

\* C8: an inbound 'r' message resolves exactly the outstanding query whose
\* transaction ID it carries, with the message's payload, and leaves every
\* other query as it is, whatever address it comes from and in whatever
\* order replies arrive.
C8_ReplyResolvesByTid == [][ResolvesItsQuery]_vars

\* C8 witness: of two queries outstanding, the later one was answered first,
\* from an address other than the one queried, and the earlier still waits
C8_Witness ==
    /\ rpcLast.op = "message" /\ rpcLast.msg.y = "r" /\ rpcLast.q # 0
    /\ queries[rpcLast.q].promise.value.r = rpcLast.msg.r
    /\ queries[rpcLast.q].peer.address # rpcLast.msg.from
    /\ \E p \in 1..(rpcLast.q - 1) : IsPending(p) /\ IsOutstanding(p)

SettledOnce ==
    \A q \in Qs :
        /\ queries[q].calls <= 1
        /\ IsPending(q) <=> queries[q].calls = 0
        /\ IsPending(q) <=> IsOutstanding(q)
        /\ ~IsPending(q) => queries[q].timer # "armed"
        /\ queries[q].timeouts # <<>> =>
              queries[q].promise.value.error.message = "Timeout exceeded"

SettledForGood ==
    \A q \in Qs : ~IsPending(q) => queries'[q] = queries[q]

SettlesOnFirst ==
    /\ (rpcLast'.op = "message" /\ rpcLast'.q # 0
            /\ (rpcLast'.msg.y = "r" => rpcLast'.msg.r.defined))
          => queries'[rpcLast'.q].promise.state = "fulfilled"
    /\ rpcLast'.op = "timeout"
          => queries'[rpcLast'.q].promise.state = "fulfilled"
    /\ rpcLast'.op = "dispose"
          => \A q \in Qs : queries'[q].promise.state = "fulfilled"

\* C9: every query is settled at most once, by the first matching response,
\* matching error, timeout or dispose; from then on its transaction ID is
\* not registered for it, its timer is not armed, nothing changes its result
\* and no 'timeout' event is emitted for a query that was answered.
C9_SettlesExactlyOnce ==
    [](SettledOnce) /\ [][SettledForGood /\ SettlesOnFirst]_vars

\* C9 witness: a query was answered, its timer cleared, and a second response
\* under its transaction ID, with another payload, has just been dropped
C9_Witness ==
    /\ rpcLast.op = "message" /\ rpcLast.msg.y = "r" /\ rpcLast.q = 0
    /\ rpcLast.msg.r.defined
    /\ \E q \in Qs :
          /\ queries[q].tid = rpcLast.msg.t
          /\ queries[q].timer = "cleared"
          /\ queries[q].promise.value.r.defined
          /\ queries[q].promise.value.r # rpcLast.msg.r

(***************************************************************************)
(* PQueue (util.js): a fixed-length array of [priority, item], nearest     *)
(* first, filled with [Infinity, null].                                    *)
(***************************************************************************)
NewPQueue(fixedLen) == [i \in 1..fixedLen |-> [n |-> Infinity, v |-> NoNode]]

PQPush(arr, n, v) ==
    IF \E i \in 1..Len(arr) : NumberLT(n, arr[i].n)
    THEN LET i == CHOOSE i \in 1..Len(arr) :
                    /\ NumberLT(n, arr[i].n)
                    /\ \A j \in 1..(i - 1) : ~NumberLT(n, arr[j].n)
         IN  SubSeq(arr, 1, i - 1) \o <<[n |-> n, v |-> v]>>
                \o SubSeq(arr, i, Len(arr) - 1)
    ELSE arr

PQMax(arr) == arr[Len(arr)].n

(***************************************************************************)
(* DHT.closest_ (index.js): the iterative lookup.  Its locals are the      *)
(* fields of `lookup`; selector holds the queries whose promises are in    *)
(* the PromiseSelector.  Promise reactions run before the next datagram or *)
(* timer is handled, so the loop of closest_ runs on inside the step that  *)
(* settles a promise it waits for.                                         *)
(***************************************************************************)
\* the address a contact of the table is reached at: each node of the
\* model's network has one ID and one address
AddressOf(id) == id[Len(id)]

\* Node.toNodeInfo
ToNodeInfo(n) == NodeInfo(n.id, AddressOf(n.id))

\* `${node.id.toString('hex')}:${node.address}:${node.port}`
hash(node) == <<node.id, node.address>>

Outcome(lk, s, ok) == [lk |-> lk, s |-> s, ok |-> ok]

\* the transaction IDs drawn by the queries of one step: the first of
\* `order` that is not outstanding
DrawTid(s, order) ==
    order[CHOOSE i \in 1..Len(order) :
            /\ order[i] \in FreeTids(s)
            /\ \A j \in 1..(i - 1) : order[j] \notin FreeTids(s)]

\* the queries one lookup may make: a bound of the model
QueryCap(method) == MaxTrackerQueries

\* for (let p of candidates) { seen.add(hash(p)); selector.add(query(p)) }
RECURSIVE QueryAll(_, _, _, _, _)
QueryAll(lk, s, candidates, order, ms) ==
    IF candidates = <<>> THEN Outcome(lk, s, TRUE)
    ELSE IF FreeTids(s) = {} \/ Len(s.qs) >= QueryCap(lk.method)
    THEN Outcome(lk, s, FALSE)
    ELSE LET p == Head(candidates)
         IN  QueryAll([lk EXCEPT !.seen = @ \cup {hash(p)},
                                 !.selector = Append(@, Len(s.qs) + 1)],
                      transact_(s, p, DrawTid(s, order), ms),
                      Tail(candidates), order, ms)

Finished(lk, outcome) == [lk EXCEPT !.status = "done", !.outcome = outcome]

\* the body of the while loop for one result res.  `const {node, r} = res`
\* leaves r undefined for a result without r, and `r.nodes` then throws.
Body(lk, s, res, order, ms) ==
    LET node == res.node
        r == res.r
        pushed == IF node # NoNode
                  THEN PQPush(lk.closest, distance(lk.target, node.id), node)
                  ELSE lk.closest
        candidates ==
            SelectSeq(r.nodes, LAMBDA p :
                /\ hash(p) \notin lk.seen
                /\ NumberLT(distance(p.id, lk.target), PQMax(pushed)))
    IN  IF node # NoNode /\ lk.rescb /\ r.defined /\ r.hit
        THEN Outcome(Finished(lk, "value"), s, TRUE)
        ELSE IF ~r.defined
        THEN Outcome(Finished([lk EXCEPT !.closest = pushed], "TypeError"), s, TRUE)
        ELSE IF ~r.hasNodes
        THEN Outcome([lk EXCEPT !.closest = pushed], s, TRUE)
        ELSE QueryAll([lk EXCEPT !.closest = pushed], s, candidates, order,
                      ms)

\* the first promise of the selector that is settled, 0 for none
FirstSettled(lk, s) ==
    IF \E i \in 1..Len(lk.selector) :
            s.qs[lk.selector[i]].promise.state = "fulfilled"
    THEN CHOOSE i \in 1..Len(lk.selector) :
            /\ s.qs[lk.selector[i]].promise.state = "fulfilled"
            /\ \A j \in 1..(i - 1) :
                  s.qs[lk.selector[j]].promise.state = "pending"
    ELSE 0

\* while (res = await selector.next()) { .. }: next() is null for an empty
\* selector, and otherwise waits for the first promise to settle
RECURSIVE Loop(_, _, _, _)
Loop(lk, s, order, ms) ==
    IF lk.status # "running" THEN Outcome(lk, s, TRUE)
    ELSE IF lk.selector = <<>>
    THEN Outcome(Finished(lk, "undefined"), s, TRUE)
    ELSE IF FirstSettled(lk, s) = 0 THEN Outcome(lk, s, TRUE)
    ELSE LET i == FirstSettled(lk, s)
             b == Body([lk EXCEPT !.selector = RemoveAt(@, i)], s,
                       s.qs[lk.selector[i]].promise.value, order, ms)
         IN  IF b.ok THEN Loop(b.lk, b.s, order, ms) ELSE b

\* closest_ from its call to its first wait: the selector starts with the
\* resolved promise of {r: {nodes: this.nodes_.closest(target, this.K_)}}
Start(hp, nm, k, s, target, method, rescb, order, ms) ==
    LET c == Closest(hp, nm, target, k)
        seed == Reply(NoNode,
                      Payload(NoId, TRUE,
                              [i \in 1..Len(c) |-> ToNodeInfo(hp[c[i]])], FALSE))
        lk == [status |-> "running", target |-> target, method |-> method,
               rescb |-> rescb, closest |-> NewPQueue(k), seen |-> {},
               selector |-> <<>>, outcome |-> "none"]
        b == Body(lk, s, seed, order, ms)
    IN  IF b.ok THEN Loop(b.lk, b.s, order, ms) ELSE b

(***************************************************************************)
(* The DHT (index.js): a RoutingTable, a KRPCSocket whose 'query',         *)
(* 'response' and 'timeout' events it listens to, and one lookup.         *)
(***************************************************************************)
LkTargets == {Uniform(0)}
LkIds == {MkId(60, 228, 1), MkId(44, 4, 2)}
Orders == {<<1, 2>>, <<2, 1>>}

LkNodeLists ==
    {<<>>} \cup {<<NodeInfo(id, AddressOf(id))>> : id \in LkIds}

LkPayloads ==
    {Payload(id, FALSE, <<>>, hit) : id \in LkIds, hit \in BOOLEAN}
    \cup {Payload(id, TRUE, nodes, FALSE) : id \in LkIds, nodes \in LkNodeLists}

\* every node answers and asks from its own address
LkMessages ==
    {Message("r", t, r, NoE, NoId, AddressOf(r.id)) :
        t \in Tids, r \in LkPayloads}
    \cup {Message("e", t, UndefinedR, e, NoId, 1) : t \in Tids, e \in KErrors}
    \cup {Message("q", 1, UndefinedR, NoE, id, AddressOf(id)) : id \in LkIds}

After(b) ==
    /\ b.ok
    /\ lookup' = b.lk
    /\ Now(b.s)

\* DHT.closest_(target, method, args, opt_rescb)
closest_(target, method, rescb, order) ==
    /\ lookup.status = "idle"
    /\ After(Start(heap, nodeMap, K, Here, target, method, rescb, order,
                   RESPONSE_TIMEOUT_))
    /\ rpcLast' = Handled("query", NoMessage, 0)
    /\ UNCHANGED <<rtVars, clVars, RESPONSE_TIMEOUT_, rpcDisposed>>

\* handleMessage_ emitting 'response' before it looks the transaction up
DhtMessageUnchecked(msg, order) ==
    /\ ~rpcDisposed
    /\ rpcLast' = Handled("message", msg,
                          IF msg.y = "q" THEN 0 ELSE outstanding[msg.t])
    /\ IF msg.y = "q"
       THEN /\ recordQuery(msg.a)
            /\ UNCHANGED <<outstanding, queries, lookup>>
       ELSE IF msg.y = "r" /\ ~msg.r.defined
       THEN UNCHANGED <<rtVars, outstanding, queries, lookup>>
       ELSE /\ IF msg.y = "r" THEN recordResponse(msg.r.id)
                              ELSE UNCHANGED rtVars
            /\ After(Loop(lookup, HandleReply(Here, msg), order,
                          RESPONSE_TIMEOUT_))
    /\ UNCHANGED <<clVars, RESPONSE_TIMEOUT_, rpcDisposed>>

\* a datagram arrives: handleMessage_, the listener of the event it emits
\* (handleQuery_ or handleNodeResponse_) and the lookup it wakes
DhtMessage(msg, order) ==
    /\ ~rpcDisposed
    /\ rpcLast' = Handled("message", msg,
                          IF msg.y = "q" THEN 0 ELSE outstanding[msg.t])
    /\ IF msg.y = "q"
       THEN /\ recordQuery(msg.a)
            /\ UNCHANGED <<outstanding, queries, lookup>>
       ELSE IF outstanding[msg.t] = 0 \/ (msg.y = "r" /\ ~msg.r.defined)
       THEN UNCHANGED <<rtVars, outstanding, queries, lookup>>
       ELSE /\ IF msg.y = "r" THEN recordResponse(msg.r.id)
                              ELSE UNCHANGED rtVars
            /\ After(Loop(lookup, HandleReply(Here, msg), order,
                          RESPONSE_TIMEOUT_))
    /\ UNCHANGED <<clVars, RESPONSE_TIMEOUT_, rpcDisposed>>

\* the timer of a query fires: 'timeout' is emitted to handleNodeTimeout_,
\* the query is rejected and the lookup woken
DhtTimeout(q, order) ==
    /\ queries[q].timer = "armed"
    /\ IF queries[q].peer.id = NoId \/ isDisposed
       THEN UNCHANGED rtVars
       ELSE recordNoResponse(queries[q].peer.id)
    /\ After(Loop(lookup, OnTimeout(Here, q), order, RESPONSE_TIMEOUT_))
    /\ rpcLast' = Handled("timeout", NoMessage, q)
    /\ UNCHANGED <<clVars, RESPONSE_TIMEOUT_, rpcDisposed>>

\* DHT.dispose: this.rpc_.dispose(), this.nodes_.dispose()
DhtDispose ==
    /\ ~rpcDisposed
    /\ dispose
    /\ rpcDisposed' = TRUE
    /\ After(Loop(lookup, Dispose(Here), <<1, 2>>, RESPONSE_TIMEOUT_))
    /\ rpcLast' = Handled("dispose", NoMessage, 0)
    /\ UNCHANGED <<clVars, RESPONSE_TIMEOUT_>>

LKInit ==
    /\ NewRoutingTable(LargeK)
    /\ found = NotAsked
    /\ NewSocket(DefaultTimeout)
    /\ lookup = NoLookup
    /\ NoTracker

\* no query for the tracker or the storage arrives
OnlyLookup == UNCHANGED inVars

LKNext ==
    \/ \E target \in LkTargets : \E rescb \in BOOLEAN : \E order \in Orders :
          closest_(target, "find_node", rescb, order) /\ OnlyLookup
    \/ \E msg \in LkMessages : \E order \in Orders :
          DhtMessage(msg, order) /\ OnlyLookup
    \/ \E q \in 1..Len(queries) : \E order \in Orders :
          DhtTimeout(q, order) /\ OnlyLookup
    \/ DhtDispose /\ OnlyLookup

SpecLK == LKInit /\ [][LKNext]_vars

(***************************************************************************)
(* Properties of the lookup.                                               *)
(***************************************************************************)
\* C10: a lookup never fails as a whole: whatever happens to its
\* sub-queries, it ends with the value its result callback gave or with
\* undefined, never with an error.
C10_LookupNeverFails ==
    lookup.status = "done" => lookup.outcome \in {"value", "undefined"}


\* C11: when the result callback of a lookup gives a value, the lookup
\* returns it at once and cancels its outstanding work: no query the
\* lookup sent is left in the table of outstanding transactions, and no
\* timer of such a query is left to fire.
C11_HitCancelsOutstanding ==
    (lookup.status = "done" /\ lookup.outcome = "value")
        => \A q \in Qs : ~IsOutstanding(q) /\ queries[q].timer # "armed"


(***************************************************************************)
(* The lookup under fair timers: a timer that setTimeout armed fires       *)
(* unless it is cleared first.  Nothing makes a peer answer.               *)
(***************************************************************************)
\* the transaction IDs are drawn in one order: which ID a query gets has
\* no part in whether the lookup ends
InOrder == <<1, 2>>

LKFairNext ==
    \/ \E target \in LkTargets : \E rescb \in BOOLEAN :
          closest_(target, "find_node", rescb, InOrder) /\ OnlyLookup
    \/ \E msg \in LkMessages : DhtMessage(msg, InOrder) /\ OnlyLookup
    \/ \E q \in 1..Len(queries) : DhtTimeout(q, InOrder) /\ OnlyLookup
    \/ DhtDispose /\ OnlyLookup

SpecLKFair ==
    /\ LKInit
    /\ [][LKFairNext]_vars
    /\ WF_vars(\E q \in 1..Len(queries) : DhtTimeout(q, InOrder) /\ OnlyLookup)

\* C12: with a non-zero response timeout and finitely many peers, every
\* lookup ends; one that ends for want of results has an empty selector
\* and no sub-query pending.
C12_LookupTerminates ==
    /\ [](lookup.status = "done" /\ lookup.outcome = "undefined"
            => lookup.selector = <<>> /\ \A q \in Qs : ~IsPending(q))
    /\ (lookup.status = "running" ~> lookup.status = "done")

\* a lookup that sent queries and ran out of results
C12_Witness ==
    /\ lookup.status = "done"
    /\ lookup.outcome = "undefined"
    /\ Len(queries) = MaxQueries
    /\ RESPONSE_TIMEOUT_ # 0


(***************************************************************************)
(* A node answering queries: handleMessage_ emits 'query' to the DHT       *)
(* (index.js: recordQuery, then ping, find_node, get_peers, announce_peer) *)
(* and to DHTStorage (storage.js: get, put).  The peers of the network     *)
(* send any query with any arguments.                                      *)
(***************************************************************************)
MaxPeers == 2       \* announcements kept in one run

AnnouncedPort == 5678

InTargets == {<<7>>, <<7, 49>>}
InSenders == {Requester(MkId(60, 228, 1), 1, 1234),
              Requester(MkId(44, 4, 2), 1, 5678),
              Requester(MkId(44, 4, 2), 2, 5678)}

\* the tokens a peer may present: those this node hands out, and another
InTokens == {getWriteToken(<<7>>, n) : n \in InSenders}
                \cup {getWriteToken(<<7, 49>>, Requester(<<>>, 1, 0))}

NoArgs(id, target) ==
    Args(id, target, sha1(<<>>), 0, 0, <<>>, <<>>, <<>>, 0, NoSig, {})

Query(method, args, node) == [method |-> method, args |-> args, node |-> node]

InQueries ==
    {Query("get_peers", NoArgs(n.id, t), n) : t \in InTargets, n \in InSenders}
    \cup {Query("announce_peer",
                [NoArgs(n.id, t) EXCEPT !.token = tok, !.implied_port = i,
                                        !.port = AnnouncedPort], n) :
            t \in {<<7>>}, tok \in InTokens, i \in {0, 1},
            n \in InSenders}

\* the listeners of 'query', in the order they were added: DHT.handleQuery_
\* and DHTStorage.handleQuery_.  A handler that throws is caught and
\* logged; respond is called with what a handler returns.
Dispatch(method, args, node, nodes) ==
    IF method = "get_peers"
    THEN handleGetPeers_(store_["announcedPeers_"], localId, nodes, args, node)
    ELSE IF method = "announce_peer"
    THEN handleAnnouncePeer_(store_["announcedPeers_"], localId, args, node)
    ELSE IF method = "get"
    THEN handleGetQuery_(store_["store_"], localId, nodes, args, node)
    ELSE handlePutQuery_(store_["store_"], localId, args, node)

StoreOf(method) ==
    IF method \in {"get_peers", "announce_peer"} THEN "announcedPeers_"
    ELSE "store_"

\* this.closest(target, this.K_).map((n) => n.toNodeInfo())
NodeInfos(hp, c) == [i \in 1..Len(c) |-> ToNodeInfo(hp[c[i]])]

\* what a handled query leaves behind: the store of the handler, and what
\* went back to the peer (respond sends y: 'r'; a throw sends nothing)
respond(method, target, node, args, name, done) ==
    /\ method = "announce_peer"
          => Len(done.store) <= MaxPeers
             /\ \A i \in 1..Len(done.store) :
                   Len(done.store[i].obj) <= MaxPeers
    /\ store_' = [store_ EXCEPT ![name] = done.store]
    /\ issued' = IF issued = <<>> /\ "token" \in done.r.has
                 THEN <<[token |-> done.r.token, target |-> target,
                         node |-> node, secret |-> secret_[name]]>>
                 ELSE issued
    /\ heard' = Heard(method, target, node, args.token, done.threw,
                      IF done.threw = "" THEN "r" ELSE "",
                      done.store # store_[name], secret_[name], args)

handleQuery_(method, args, node) ==
    LET target == IF method = "put" THEN PutTarget(args) ELSE args.target
    IN  /\ ~rpcDisposed
        /\ recordQuery(args.id)
        /\ \E hp \in {heap'} : \E nm \in {nodeMap'} :
           \E done \in {Dispatch(method, args, node,
                                 NodeInfos(hp, Closest(hp, nm, target, K)))} :
              respond(method, target, node, args, StoreOf(method), done)
        /\ UNCHANGED <<secret_, tracker>>

\* the setInterval of a TokenStore: this.secret_ = crypto.randomBytes(10)
refreshSecret(name) ==
    /\ secret_[name] < MaxRotations
    /\ secret_' = [secret_ EXCEPT ![name] = @ + 1]
    /\ UNCHANGED <<store_, issued, heard, tracker>>

OnlyInbound == UNCHANGED <<clVars, krpcVars, lkVars, netVars>>

INInit ==
    /\ NewRoutingTable(LargeK)
    /\ found = NotAsked
    /\ NoSocket
    /\ lookup = NoLookup
    /\ NoTracker

INNext ==
    \/ \E q \in InQueries :
          handleQuery_(q.method, q.args, q.node) /\ OnlyInbound
    \/ refreshSecret("announcedPeers_") /\ UNCHANGED rtVars /\ OnlyInbound

SpecIN == INInit /\ [][INNext]_vars


(***************************************************************************)
(* C15: a write token verifies for the target and requester it was made    *)
(* for; it is rejected for a requester at another IP address and for       *)
(* another target; whether it verifies depends on the target and the       *)
(* transport address only, not on the ID or port of the requester.  Stated *)
(* of the token get_peers handed out first and of every announce_peer      *)
(* that presented it.                                                      *)
(***************************************************************************)
C15_TokenBoundToTargetAndIp ==
    \A i \in 1..Len(issued) :
        LET tok == issued[i].token
            T == issued[i].target
            N == issued[i].node
        IN  /\ verifyToken(tok, T, N)
            /\ \A M \in InSenders :
                  /\ M.address # N.address => ~verifyToken(tok, T, M)
                  /\ M.address = N.address => verifyToken(tok, T, M)
            /\ \A T2 \in InTargets : T2 # T => ~verifyToken(tok, T2, N)
            /\ (heard.method = "announce_peer" /\ heard.token = tok)
                  => /\ (heard.target = T /\ heard.node.address = N.address)
                            => heard.threw = ""
                     /\ (heard.target = T /\ heard.node.address # N.address)
                            => heard.threw = "Bad token"
                     /\ (heard.target # T /\ heard.node.address = N.address)
                            => heard.threw = "Bad token"

\* a token handed to one requester was accepted from a requester with
\* another ID and port at the same address, and the announcement stored
C15_Witness ==
    /\ issued # <<>>
    /\ heard.method = "announce_peer"
    /\ heard.token = issued[1].token
    /\ heard.target = issued[1].target
    /\ heard.node.address = issued[1].node.address
    /\ heard.node.id # issued[1].node.id
    /\ heard.node.port # issued[1].node.port
    /\ heard.threw = ""
    /\ heard.changed


(***************************************************************************)
(* C16: a write token has a bounded lifetime: once the secret it was       *)
(* issued under has been rotated out (the secret has been replaced twice   *)
(* since, so that it is neither the current nor the previous one) an       *)
(* announce_peer presenting the token is rejected.                         *)
(***************************************************************************)
C16_TokenExpiresWithSecret ==
    \A i \in 1..Len(issued) :
        (/\ heard.method = "announce_peer"
         /\ heard.token = issued[i].token
         /\ heard.secret >= issued[i].secret + 2)
            => heard.threw = "Bad token"


(***************************************************************************)
(* C17: an announce_peer whose token does not verify against the info_hash *)
(* and the address of its sender is rejected: the announcement store is    *)
(* left exactly as it was and no response is sent to the requester.        *)
(***************************************************************************)
C17_BadTokenLeavesStore ==
    (/\ heard.method = "announce_peer"
     /\ ~verifyToken(heard.token, heard.target, heard.node))
        => /\ ~heard.changed
           /\ heard.y # "r"
           /\ heard.threw = "Bad token"

\* a bad token was presented for an info_hash that has announcements, from
\* an address that has none among them
C17_Witness ==
    /\ heard.method = "announce_peer"
    /\ ~verifyToken(heard.token, heard.target, heard.node)
    /\ NmHas(store_["announcedPeers_"], heard.target)
    /\ \A p \in Ports :
          IndexOf(NmGet(store_["announcedPeers_"], heard.target),
                  encodeCompactNodeInfo(heard.node.address, p)) = 0
    /\ heard.threw = "Bad token"

(***************************************************************************)
(* C18: a rejected announce_peer (bad write token) is answered with a KRPC *)
(* error message, y = 'e', so that the caller's query completes with the   *)
(* rejection.                                                              *)
(***************************************************************************)
C18_RejectionAnsweredWithError ==
    (heard.method = "announce_peer" /\ heard.threw # "") => heard.y = "e"


(***************************************************************************)
(* DHT.get_peers and DHT.announce_peer (index.js): a lookup with the       *)
(* method get_peers whose result callback collects the peers, or the nodes *)
(* that gave a write token; announce_peer then queries those nodes.  The   *)
(* nodes of the network answer with any response.                          *)
(***************************************************************************)
\* the r of a response to get_peers: has names the optional entries that
\* are there (token, values)
PeersPayload(id, hasNodes, nodes, token, values, has) ==
    [defined |-> TRUE, id |-> id, hasNodes |-> hasNodes, nodes |-> nodes,
     hit |-> FALSE, token |-> token, values |-> values, has |-> has]

\* `${peer.address}:${peer.family}:${peer.port}`
PeerHash(peer) == <<peer.address, peer.port>>

pushPeerAgain(peers, peer) == Append(peers, peer)

\* push_peer: peers[hash(peer)] = peer
push_peer(peers, peer) ==
    IF \E i \in 1..Len(peers) : PeerHash(peers[i]) = PeerHash(peer)
    THEN [i \in 1..Len(peers) |->
            IF PeerHash(peers[i]) = PeerHash(peer) THEN peer ELSE peers[i]]
    ELSE Append(peers, peer)

\* r.values.forEach((cp) => push_peer(decodeCompactPeerInfo(cp)))
RECURSIVE PushPeers(_, _)
PushPeers(peers, values) ==
    IF values = <<>> THEN peers
    ELSE PushPeers(push_peer(peers, decodeCompactPeerInfo(Head(values))),
                   Tail(values))

\* makeNodeInfo(r.id, rinfo, r.token): the node a response came from, with
\* the token it gave
Writer(node, token) ==
    [id |-> node.id, address |-> node.address, token |-> token]

\* PQueue.items
items(arr) ==
    LET full == SelectSeq(arr, LAMBDA e : e.v # NoNode)
    IN  [i \in 1..Len(full) |-> full[i].v]

\* the result callbacks of get_peers and of announce_peer, called with
\* (r, node); neither returns a value
Callback(o, r, node) ==
    IF o.kind = "get_peers"
    THEN IF "values" \in r.has
         THEN [o EXCEPT !.peers = PushPeers(@, r.values)]
         ELSE o
    ELSE IF "token" \in r.has
    THEN [o EXCEPT !.writeable =
             PQPush(@, distance(o.target, node.id), Writer(node, r.token))]
    ELSE o

RECURSIVE CallbackAll(_, _)
CallbackAll(o, results) ==
    IF results = <<>> THEN o
    ELSE CallbackAll(Callback(o, Head(results).r, Head(results).node),
                     Tail(results))

Went(o, s, ok) == [op |-> o, s |-> s, ok |-> ok]

\* this.rpc_.query(closest, 'announce_peer', {.., token: (node) =>
\* node.token}): one query for each node, with the token of that node
RECURSIVE AnnounceAll(_, _, _, _, _)
AnnounceAll(o, s, nodes, order, ms) ==
    IF nodes = <<>> THEN Went(o, s, TRUE)
    ELSE IF FreeTids(s) = {} THEN Went(o, s, FALSE)
    ELSE LET p == Head(nodes)
         IN  AnnounceAll(
                 [o EXCEPT !.sent = Append(@, [q |-> Len(s.qs) + 1,
                                               node |-> NodeInfo(p.id, p.address),
                                               token |-> p.token])],
                 transact_(s, NodeInfo(p.id, p.address), DrawTid(s, order), ms),
                 Tail(nodes), order, ms)

\* get_peers or announce_peer after a step of its lookup from `before` to
\* b: the callback was called for every result with a node that the loop
\* took from the selector; when closest_ has returned, get_peers returns
\* the peers and announce_peer sends its queries; when closest_ has thrown,
\* so has the operation.  announce_peer returns when every query it sent
\* has settled.
Continue(o, before, b, order, ms) ==
    LET taken == SelectSeq(before.selector, LAMBDA q :
                    \A i \in 1..Len(b.lk.selector) : b.lk.selector[i] # q)
        results == [i \in 1..Len(taken) |-> b.s.qs[taken[i]].promise.value]
        called == CallbackAll(o, SelectSeq(results,
                                           LAMBDA res : res.node # NoNode))
    IN  IF o.status = "announcing"
        THEN Went(IF \A i \in 1..Len(o.sent) :
                        b.s.qs[o.sent[i].q].promise.state = "fulfilled"
                  THEN [o EXCEPT !.status = "done"] ELSE o,
                  b.s, TRUE)
        ELSE IF o.status # "lookup" \/ b.lk.status # "done"
        THEN Went(called, b.s, TRUE)
        ELSE IF b.lk.outcome # "undefined"
        THEN Went([called EXCEPT !.status = "failed"], b.s, TRUE)
        ELSE IF o.kind = "get_peers"
        THEN Went([called EXCEPT !.status = "done"], b.s, TRUE)
        ELSE IF items(called.writeable) = <<>>
        THEN Went([called EXCEPT !.status = "done"], b.s, TRUE)
        ELSE AnnounceAll([called EXCEPT !.status = "announcing"], b.s,
                         items(called.writeable), order, ms)

Proceed(o, before, b, order) ==
    \E c \in {Continue(o, before, b, order, RESPONSE_TIMEOUT_)} :
        /\ b.ok
        /\ c.ok
        /\ lookup' = b.lk
        /\ Now(c.s)
        /\ tracker' = c.op

Called(kind, target, k) ==
    [NoOp EXCEPT !.kind = kind, !.status = "lookup", !.target = target,
                 !.writeable = NewPQueue(k)]

\* DHT.get_peers(target)
get_peers(target, order) ==
    /\ lookup.status = "idle"
    /\ tracker.status = "idle"
    /\ Proceed(Called("get_peers", target, K), lookup,
               Start(heap, nodeMap, K, Here, target, "get_peers", TRUE, order,
                     RESPONSE_TIMEOUT_), order)
    /\ rpcLast' = Handled("query", NoMessage, 0)
    /\ UNCHANGED <<rtVars, clVars, RESPONSE_TIMEOUT_, rpcDisposed>>

\* DHT.announce_peer(target, opt_port)
announce_peer(target, order) ==
    /\ lookup.status = "idle"
    /\ tracker.status = "idle"
    /\ Proceed(Called("announce_peer", target, K), lookup,
               Start(heap, nodeMap, K, Here, target, "get_peers", TRUE, order,
                     RESPONSE_TIMEOUT_), order)
    /\ rpcLast' = Handled("query", NoMessage, 0)
    /\ UNCHANGED <<rtVars, clVars, RESPONSE_TIMEOUT_, rpcDisposed>>

\* a datagram arrives: handleMessage_, the listener of the event it emits
\* and the operation its promise wakes
TrackerMessage(msg, order) ==
    /\ ~rpcDisposed
    /\ rpcLast' = Handled("message", msg,
                          IF msg.y = "q" THEN 0 ELSE outstanding[msg.t])
    /\ IF msg.y = "q"
       THEN /\ recordQuery(msg.a)
            /\ UNCHANGED <<outstanding, queries, lookup, tracker>>
       ELSE IF outstanding[msg.t] = 0 \/ (msg.y = "r" /\ ~msg.r.defined)
       THEN UNCHANGED <<rtVars, outstanding, queries, lookup, tracker>>
       ELSE /\ IF msg.y = "r" THEN recordResponse(msg.r.id)
                              ELSE UNCHANGED rtVars
            /\ Proceed([tracker EXCEPT !.received =
                           IF msg.y = "r" /\ lookup.status = "running"
                           THEN Append(@, msg.r) ELSE @],
                       lookup,
                       Loop(lookup, HandleReply(Here, msg), order,
                            RESPONSE_TIMEOUT_),
                       order)
    /\ UNCHANGED <<clVars, RESPONSE_TIMEOUT_, rpcDisposed>>

\* the timer of a query fires
TrackerTimeout(q, order) ==
    /\ queries[q].timer = "armed"
    /\ IF queries[q].peer.id = NoId \/ isDisposed
       THEN UNCHANGED rtVars
       ELSE recordNoResponse(queries[q].peer.id)
    /\ Proceed(tracker, lookup,
               Loop(lookup, OnTimeout(Here, q), order, RESPONSE_TIMEOUT_),
               order)
    /\ rpcLast' = Handled("timeout", NoMessage, q)
    /\ UNCHANGED <<clVars, RESPONSE_TIMEOUT_, rpcDisposed>>

TrTargets == {Uniform(0)}
Seed == MkId(96, 0, 3)
TrIds == {Seed, MkId(64, 0, 2), MkId(64, 0, 1)}

\* the token a node gives, one for each node
TokenOf(id) == sha1(id)

TrPeers == <<encodeCompactNodeInfo(1, 1234), encodeCompactNodeInfo(2, 5678)>>

TrNodes == <<NodeInfo(MkId(64, 0, 2), 2), NodeInfo(MkId(64, 0, 1), 1)>>

\* what a node answers to get_peers: the seed knows the other nodes; a node
\* gives a token or none, and peers when it has some
TrPayloads ==
    {PeersPayload(Seed, TRUE, TrNodes, sha1(<<>>), <<>>, {}),
     PeersPayload(Seed, TRUE, TrNodes, TokenOf(Seed), SubSeq(TrPeers, 1, 1),
                  {"token", "values"}),
     PeersPayload(Seed, FALSE, <<>>, TokenOf(Seed), <<>>, {"token"})}
    \cup {PeersPayload(id, FALSE, <<>>, sha1(<<>>), <<>>, {}) :
            id \in TrIds \ {Seed}}
    \cup {PeersPayload(id, FALSE, <<>>, TokenOf(id), TrPeers,
                       {"token", "values"}) : id \in TrIds \ {Seed}}

TrMessages ==
    {Message("r", t, r, NoE, NoId, AddressOf(r.id)) :
        t \in Tids, r \in TrPayloads}
    \cup {Message("e", 1, UndefinedR, e, NoId, 1) : e \in KErrors}
    \cup {Message("q", 1, UndefinedR, NoE, Seed, AddressOf(Seed))}

OnlyOutbound == UNCHANGED <<secret_, store_, issued, heard, netVars>>

TRInit ==
    /\ NewRoutingTable(SmallK)
    /\ found = NotAsked
    /\ NewSocket(DefaultTimeout)
    /\ lookup = NoLookup
    /\ NoTracker

TRNext ==
    \/ \E target \in TrTargets : get_peers(target, InOrder) /\ OnlyOutbound
    \/ \E target \in TrTargets : announce_peer(target, InOrder) /\ OnlyOutbound
    \/ \E msg \in TrMessages : TrackerMessage(msg, InOrder) /\ OnlyOutbound
    \/ \E q \in 1..Len(queries) : TrackerTimeout(q, InOrder) /\ OnlyOutbound

SpecTR == TRInit /\ [][TRNext]_vars


(***************************************************************************)
(* Properties of get_peers and announce_peer.                              *)
(***************************************************************************)
\* the peers carried in the values of the responses received
Carried ==
    UNION {{decodeCompactPeerInfo(tracker.received[i].values[j]) :
                j \in 1..Len(tracker.received[i].values)} :
            i \in {n \in 1..Len(tracker.received) :
                        "values" \in tracker.received[n].has}}

\* the responses that gave a write token
TokenResponders ==
    {tracker.received[i] :
        i \in {n \in 1..Len(tracker.received) :
                    "token" \in tracker.received[n].has}}

\* C13: get_peers(target) returns exactly the de-duplicated union of the
\* peers carried in the values of every response received during its
\* lookup; it returns the empty list when no response carried a peer.
C13_GetPeersReturnsUnion ==
    (tracker.kind = "get_peers" /\ tracker.status = "done")
        => /\ {tracker.peers[i] : i \in 1..Len(tracker.peers)} = Carried
           /\ \A i, j \in 1..Len(tracker.peers) :
                 i # j => tracker.peers[i] # tracker.peers[j]

\* two responses carried the same peer, one of them another peer as well,
\* and get_peers returned the two peers, with the ports 1234 and 5678
C13_Witness ==
    /\ tracker.kind = "get_peers"
    /\ tracker.status = "done"
    /\ \E i, j \in 1..Len(tracker.received) :
          /\ i # j
          /\ Len(tracker.received[i].values) = 1
          /\ Len(tracker.received[j].values) = 2
    /\ {tracker.peers[i].port : i \in 1..Len(tracker.peers)} = {1234, 5678}
    /\ Len(tracker.peers) = 2

\* C14: announce_peer sends its announce_peer queries only after its
\* lookup has finished, only to nodes that answered the lookup with a
\* write token, to at most K of them, the K closest to the target by XOR
\* among those, each query with the token its node gave.
C14_AnnouncesToClosestWriters ==
    (tracker.kind = "announce_peer" /\ tracker.sent # <<>>)
        => /\ lookup.status = "done"
           /\ Len(tracker.sent) <= K
           /\ \A i \in 1..Len(tracker.sent) :
                 \E r \in TokenResponders :
                    /\ r.id = tracker.sent[i].node.id
                    /\ r.token = tracker.sent[i].token
           /\ \A r \in TokenResponders :
                 (\E i \in 1..Len(tracker.sent) :
                     Nearer(tracker.target, r.id, tracker.sent[i].node.id))
                 => \E j \in 1..Len(tracker.sent) :
                       tracker.sent[j].node.id = r.id


(***************************************************************************)
(* A network of DHTs with the storage extension (index.js, storage.js):    *)
(* three nodes, each at its own address, with K = NetK.  Every datagram is *)
(* delivered and answered, queries are answered in the order they were     *)
(* made, and one call runs at a time.  With the IDs of NetIds every        *)
(* insertion into a routing table finds room (the buckets split between    *)
(* them), so a table is the IDs recorded, in the order of _nodeMap.        *)
(***************************************************************************)
NetK == 2
NetIds == <<MkId(16, 0, 1), MkId(32, 0, 2), MkId(64, 0, 3)>>

\* the one value of a set of one: `The({f(x) : x \in {e}})` is f(e) with e
\* computed once
The(S) == CHOOSE x \in S : TRUE

\* new DHT(): nothing bound, an empty table and an empty store
NoDHT == [listening |-> FALSE, contacts |-> <<>>, store |-> <<>>]

\* the Node objects and the _nodeMap of a table that holds `contacts`
TableHeap(contacts) == [i \in 1..Len(contacts) |-> NewNode(contacts[i])]
TableMap(contacts) ==
    [i \in 1..Len(contacts) |-> [key |-> contacts[i], obj |-> i]]

\* DHT.closestNodes(id, this.K_)
closestNodes(contacts, id) ==
    NodeInfos(TableHeap(contacts),
              Closest(TableHeap(contacts), TableMap(contacts), id, NetK))

\* RoutingTable.recordQuery and recordResponse: a node that is not in the
\* table is inserted
record(contacts, id) ==
    IF IndexOf(contacts, id) # 0 THEN contacts ELSE Append(contacts, id)

\* the listeners of 'query' of the node `dht` whose ID is id: handlePing_,
\* handleFindNode_, handleGetQuery_ or handlePutQuery_
Answer(dht, id, method, args, node) ==
    IF method = "ping" THEN Returned(dht.store, JustId(id))
    ELSE IF method = "find_node"
    THEN Returned(dht.store,
                  Response(id, <<>>, closestNodes(dht.contacts, args.target),
                           <<>>, NoRecord, {"nodes"}))
    ELSE IF method = "get"
    THEN handleGetQuery_(dht.store, id,
                         closestNodes(dht.contacts, args.target), args, node)
    ELSE handlePutQuery_(dht.store, id, args, node)

\* the node at `to` handles a query of the node at `from`: DHT.handleQuery_
\* records the requester, then the listener answers (address and port of a
\* node are one number)
Serve(nw, from, to, method, args) ==
    The({The({[nw |-> [heardOf EXCEPT ![to].store = done.store],
               done |-> done] :
                 done \in {Answer(heardOf[to], NetIds[to], method, args,
                                  Requester(NetIds[from], from, from))}}) :
            heardOf \in {[nw EXCEPT ![to].contacts =
                              record(@, NetIds[from])]}})

\* the r of a response as the lookup reads it; hit is what the result
\* callback returned for it
StoragePayload(r, hit) ==
    [defined |-> TRUE, id |-> r.id, hasNodes |-> "nodes" \in r.has,
     nodes |-> r.nodes, hit |-> hit, token |-> r.token, rec |-> r.rec,
     has |-> r.has]

\* GetResponseValidator(target, opt_salt)(r): opt_salt is <<>> for
\* undefined and <<salt>> for a salt
GetResponseValidator(target, opt_salt, r) ==
    LET rec == IF opt_salt # <<>>
               THEN [r.rec EXCEPT !.salt = opt_salt[1],
                                  !.has = @ \cup {"salt"}]
               ELSE r.rec
    IN  IF "v" \notin r.has THEN FALSE
        ELSE IF "k" \in r.has \/ "sig" \in r.has
        THEN /\ "sig" \in r.has
             /\ "k" \in r.has
             /\ Verify(rec.sig, encodeSigData(rec), rec.k)
             /\ sha1(IF opt_salt # <<>> THEN rec.k \o opt_salt[1]
                     ELSE rec.k) = target
        ELSE sha1(bencode(rec.v)) = target

\* a call of get or put: its result callback (check for get, collect for
\* put), the arguments of its queries, and what the callback has seen:
\* the PQueue writeable and the response the validator accepted
Calling(kind, opt_salt, args) ==
    [kind |-> kind, opt_salt |-> opt_salt, args |-> args,
     writeable |-> NewPQueue(NetK), value |-> JustId(<<>>)]

\* the result callback of get (the validator) and of put (collect the
\* nodes that gave a token)
Checked(call, target, r) ==
    call.kind = "get" /\ GetResponseValidator(target, call.opt_salt, r)

Collected(call, target, r, address, hit) ==
    IF call.kind = "put" /\ "token" \in r.has
    THEN [call EXCEPT !.writeable =
             PQPush(@, distance(target, r.id),
                    Writer(NodeInfo(r.id, address), r.token))]
    ELSE IF hit THEN [call EXCEPT !.value = r]
    ELSE call

\* the first query made that is not answered yet
Unanswered(s) ==
    CHOOSE q \in 1..Len(s.qs) :
        /\ s.qs[q].promise.state = "pending"
        /\ \A p \in 1..(q - 1) : s.qs[p].promise.state # "pending"

Talk(nw, lk, call, ok) == [nw |-> nw, lk |-> lk, call |-> call, ok |-> ok]

\* the node at `to` answers the query `q` of the lookup of node `me`:
\* handleNodeResponse_ records it, and closest_ runs on with the response
\* until it waits again or returns
Answered(nw, me, call, lk, s, q, to) ==
    The({The({The({Talk([sv.nw EXCEPT ![me].contacts = record(@, sv.done.r.id)],
                        b, Collected(call, lk.target, sv.done.r, to, hit),
                        b.ok) :
                     b \in {Loop(lk,
                                 HandleReply(s,
                                     Message("r", s.qs[q].tid,
                                             StoragePayload(sv.done.r, hit),
                                             NoE, NoId, to)),
                                 InOrder, DefaultTimeout)}}) :
               hit \in {Checked(call, lk.target, sv.done.r)}}) :
         sv \in {Serve(nw, me, to, lk.method, call.args)}})

\* the lookup of node `me` from a wait to its end
RECURSIVE Converse(_, _, _, _, _)
Converse(nw, me, call, lk, s) ==
    IF lk.status # "running" THEN Talk(nw, lk, call, TRUE)
    ELSE The({IF t.ok THEN Converse(t.nw, me, t.call, t.lk.lk, t.lk.s)
              ELSE Talk(t.nw, t.lk.lk, t.call, FALSE) :
                 t \in {Answered(nw, me, call, lk, s, Unanswered(s),
                                 s.qs[Unanswered(s)].peer.address)}})

\* this.closest_(target, method, args, opt_rescb) of node `me`, on a socket
\* with no transaction outstanding
Lookup(nw, me, target, method, call) ==
    The({IF b.ok THEN Converse(nw, me, call, b.lk, b.s)
         ELSE Talk(nw, b.lk, call, FALSE) :
            b \in {Start(TableHeap(nw[me].contacts),
                         TableMap(nw[me].contacts), NetK,
                         Socket([tid \in Tids |-> 0], <<>>), target, method,
                         call.kind # "", InOrder, DefaultTimeout)}})

\* what a call returned: found and rec for get (local when it came from
\* the store of the caller), sent the addresses a put sent 'put' to or
\* listen pinged
Call(op, from, target, hit, local, rec, sent) ==
    [op |-> op, from |-> from, target |-> target, found |-> hit,
     local |-> local, rec |-> rec, sent |-> sent, threw |-> ""]

\* a put that threw: v is the value it was to store, sent the addresses it
\* had sent 'put' to by then
Thrown(from, target, v, sent, message) ==
    [op |-> "put", from |-> from, target |-> target, found |-> FALSE,
     local |-> FALSE, rec |-> Record(<<>>, 0, NoSig, <<>>, v, {"v"}),
     sent |-> sent, threw |-> message]

\* the limits put checks: the bytes of v and of a salt
MaxValueLength == 1000
MaxSaltLength == 64

\* bytes of an ed25519 public key in the model (32 in the program): with a
\* salt of one byte, the digest of key and salt is as long as an ID
PublicKeyLength == 5

\* this.rpc_.query(closest, 'put', args) with token: (node) => node.token:
\* every node handles its query, and the caller records a response
RECURSIVE WriteAll(_, _, _, _)
WriteAll(nw, me, nodes, args) ==
    IF nodes = <<>> THEN nw
    ELSE The({WriteAll(IF sv.done.threw = ""
                       THEN [sv.nw EXCEPT ![me].contacts =
                                 record(@, Head(nodes).id)]
                       ELSE sv.nw,
                       me, Tail(nodes), args) :
                 sv \in {Serve(nw, me, Head(nodes).address, "put",
                               [args EXCEPT !.token = Head(nodes).token])}})

\* put with the check of v after the queries
WrittenUnchecked(nw, me, target, args, refused) ==
    The({The({[nw |-> WriteAll(t.nw, me, nodes, args), ok |-> t.ok,
               sent |-> [i \in 1..Len(nodes) |-> nodes[i].address],
               threw |-> IF refused THEN "v must be less than 1000 bytes"
                         ELSE ""] :
                 nodes \in {items(t.call.writeable)}}) :
            t \in {Lookup(nw, me, target, "get",
                          Calling("put", <<>>, NoArgs(NetIds[me], target)))}})

\* the lookup of a put, then, unless the signed v is refused, its queries
\* to the nodes of writeable
Written(nw, me, target, args, refused) ==
    The({The({IF refused
              THEN [nw |-> t.nw, ok |-> t.ok, sent |-> <<>>,
                    threw |-> "v must be less than 1000 bytes"]
              ELSE [nw |-> WriteAll(t.nw, me, nodes, args), ok |-> t.ok,
                    sent |-> [i \in 1..Len(nodes) |-> nodes[i].address],
                    threw |-> ""] :
                 nodes \in {items(t.call.writeable)}}) :
            t \in {Lookup(nw, me, target, "get",
                          Calling("put", <<>>, NoArgs(NetIds[me], target)))}})

Put(target, rec) == [target |-> target, rec |-> rec]

\* DHTStorage.get(args) of the node at `me`
get(me, target, opt_salt) ==
    /\ network[me].listening
    /\ IF NmHas(network[me].store, target)
       THEN /\ journal' = [journal EXCEPT !.last =
                   Call("get", me, target, TRUE, TRUE,
                        NmGet(network[me].store, target), <<>>)]
            /\ UNCHANGED network
       ELSE \E t \in {Lookup(network, me, target, "get",
                             Calling("get", opt_salt,
                                     NoArgs(NetIds[me], target)))} :
               /\ t.ok
               /\ network' = t.nw
               /\ journal' = [journal EXCEPT !.last =
                      Call("get", me, target, t.lk.outcome = "value", FALSE,
                           t.call.value.rec, <<>>)]

\* what a put leaves behind: the network after its queries, and in the
\* journal the call, with the record when it was written
Leave(me, target, rec, w) ==
    /\ w.ok
    /\ network' = w.nw
    /\ journal' =
          IF w.threw # ""
          THEN [journal EXCEPT !.last =
                   Thrown(me, target, rec.v, w.sent, w.threw)]
          ELSE [puts |-> Append(journal.puts, Put(target, rec)),
                last |-> Call("put", me, target, FALSE, FALSE, NoRecord,
                              w.sent)]

\* a put that throws before its lookup
Refuse(me, v, message) ==
    /\ UNCHANGED network
    /\ journal' = [journal EXCEPT !.last = Thrown(me, <<>>, v, <<>>, message)]

\* DHTStorage.putImmutable_(data) of the node at `me`
putImmutable_(me, v) ==
    LET target == sha1(bencode(v))
    IN  /\ network[me].listening
        /\ \A i \in 1..Len(journal.puts) : journal.puts[i].target # target
        /\ IF Len(v) > MaxValueLength
           THEN Refuse(me, v, "v must be less than 1000 bytes")
           ELSE \E w \in {Written(network, me, target,
                                  [NoArgs(NetIds[me], target) EXCEPT !.v = v],
                                  FALSE)} :
                   Leave(me, target, Record(<<>>, 0, NoSig, <<>>, v, {"v"}), w)

\* DHTStorage.put(k, opt_salt, cb) of the node at `me`, where cb signs
\* {v, seq} with the secret key of k
put(me, k, opt_salt, v, seq) ==
    LET target == sha1(IF opt_salt # <<>> THEN k \o opt_salt[1] ELSE k)
        r == Args(NetIds[me], target, sha1(<<>>), 0, 0, v, k,
                  IF opt_salt # <<>> THEN opt_salt[1] ELSE <<>>, seq, NoSig,
                  {"k", "v", "seq", "sig"}
                      \cup (IF opt_salt # <<>> THEN {"salt"} ELSE {}))
        signed == [r EXCEPT !.sig = Sign(encodeSigData(r), k)]
    IN  /\ network[me].listening
        /\ IF opt_salt # <<>> /\ Len(opt_salt[1]) > MaxSaltLength
           THEN Refuse(me, v, "Salt must be less than 64 bytes.")
           ELSE IF Len(k) # PublicKeyLength
           THEN Refuse(me, v, "ed25519 public key must be 32 bytes.")
           ELSE \E w \in {Written(network, me, target, signed,
                                  Len(v) = 0 \/ Len(v) > MaxValueLength)} :
                   Leave(me, target,
                         Record(k, seq, signed.sig, signed.salt, v,
                                signed.has), w)

\* DHT.listen of the node at `me` with bootstrapNodes [boot]: ping(boot),
\* then find_node(this.id)
Listened(nw, me, boot) ==
    The({The({Lookup(joined, me, NetIds[me], "find_node",
                     Calling("", <<>>, NoArgs(NetIds[me], NetIds[me]))) :
                 joined \in {[pinged.nw EXCEPT ![me].contacts =
                                  record(@, NetIds[boot])]}}) :
            pinged \in {Serve([nw EXCEPT ![me].listening = TRUE], me, boot,
                              "ping", NoArgs(NetIds[me], <<>>))}})

listen(me, boot) ==
    /\ ~network[me].listening
    /\ network[boot].listening
    /\ \E t \in {Listened(network, me, boot)} :
          /\ t.ok
          /\ network' = t.nw
    /\ journal' = [journal EXCEPT !.last =
          Call("listen", me, NetIds[me], FALSE, FALSE, NoRecord, <<boot>>)]

\* the values stored: an immutable one, and two for one key and salt
Value == <<116, 101, 115, 116>>
Key ==
    [i \in 1..PublicKeyLength |->
        IF i <= 3 THEN <<107, 101, 121>>[i]
        ELSE IF i = PublicKeyLength THEN 1 ELSE 0]
Salt == <<115>>
Versions == <<<<118, 49>>, <<118, 50>>>>

ImmutableTarget == sha1(bencode(Value))
MutableTarget == sha1(Key \o Salt)

\* the puts of the key that have completed
Versioned == SelectSeq(journal.puts, LAMBDA p : p.target = MutableTarget)

\* one node listens alone, and a second one has joined it
Pair ==
    {Listened([a \in 1..Len(NetIds) |->
                  IF a = p[1] THEN [NoDHT EXCEPT !.listening = TRUE]
                  ELSE NoDHT],
              p[2], p[1]).nw :
        p \in {q \in (1..Len(NetIds)) \X (1..Len(NetIds)) : q[1] # q[2]}}

NETInit ==
    /\ NewRoutingTable(LargeK)
    /\ found = NotAsked
    /\ NoSocket
    /\ lookup = NoLookup
    /\ NoHandler
    /\ tracker = NoOp
    /\ network \in Pair
    /\ journal = NoJournal

OnlyNetwork ==
    UNCHANGED <<rtVars, clVars, krpcVars, lkVars, secret_, store_, issued,
                heard, tracker>>

NETNext ==
    \/ \E me, boot \in 1..Len(NetIds) : listen(me, boot) /\ OnlyNetwork
    \/ \E me \in 1..Len(NetIds) : putImmutable_(me, Value) /\ OnlyNetwork
    \/ \E me \in 1..Len(NetIds) :
          /\ Len(Versioned) < Len(Versions)
          /\ put(me, Key, <<Salt>>, Versions[Len(Versioned) + 1],
                 Len(Versioned))
          /\ OnlyNetwork
    \/ \E me \in 1..Len(NetIds) :
          get(me, ImmutableTarget, <<>>) /\ OnlyNetwork
    \/ \E me \in 1..Len(NetIds) :
          get(me, MutableTarget, <<Salt>>) /\ OnlyNetwork

SpecNET == NETInit /\ [][NETNext]_vars


(***************************************************************************)
(* Properties of get and put in the network.                               *)
(***************************************************************************)
\* put(Value) has completed
Published ==
    \E i \in 1..Len(journal.puts) : journal.puts[i].target = ImmutableTarget

\* C19: in a network of live nodes with delivered datagrams, once put(v) of
\* an immutable value has completed, get(SHA-1(bencode(v))) from any node
\* of the network, also one that does not store the value itself, returns
\* a record whose v is that value; before any put it returns no value.
C19_ImmutableGetReturnsValue ==
    (journal.last.op = "get" /\ journal.last.target = ImmutableTarget)
        => IF Published
           THEN journal.last.found /\ journal.last.rec.v = Value
           ELSE ~journal.last.found

\* a node that does not store the value got it from the network, after a
\* put that wrote it to two other nodes
C19_Witness ==
    /\ journal.last.op = "get"
    /\ journal.last.target = ImmutableTarget
    /\ Published
    /\ ~journal.last.local
    /\ ~NmHas(network[journal.last.from].store, ImmutableTarget)
    /\ journal.last.found
    /\ journal.last.rec.v = Value
    /\ Cardinality({a \in 1..Len(NetIds) :
                       NmHas(network[a].store, ImmutableTarget)}) = NetK

\* C20: once a put of (v, seq) under (k, salt) has completed, get({k,
\* salt}) from any node returns v with that seq: after a first put of
\* (v1, 0) and a second of (v2, 1), from any nodes, every later get returns
\* v2 and never v1.
C20_MutableGetReturnsLatest ==
    (journal.last.op = "get" /\ journal.last.target = MutableTarget
        /\ Versioned # <<>>)
        => /\ journal.last.found
           /\ journal.last.rec.v = Versioned[Len(Versioned)].rec.v
           /\ journal.last.rec.seq = Versioned[Len(Versioned)].rec.seq


(***************************************************************************)
(* DHTStorage answering get and put (storage.js): the peers of the network *)
(* send a put for an immutable value or for a key, with or without a salt, *)
(* with any of the tokens this node hands out, and with a signature that   *)
(* is good, made with another key, or made for another seq.                *)
(***************************************************************************)
StKey == <<107, 49>>
OtherKey == <<107, 50>>
StSalt == <<115>>
StValue == <<118>>
StSeqs == {0, 1}

StTargets == {sha1(StKey), sha1(StKey \o StSalt), sha1(bencode(StValue))}
StSenders == {Requester(MkId(60, 228, 1), 1, 1234),
              Requester(MkId(44, 4, 2), 2, 5678)}

\* the tokens a peer may send with a put of target: the one it was given,
\* the one given to another address, and one given for another target
StTokens(target, n) ==
    {getWriteToken(target, n)}
    \cup {getWriteToken(target, m) : m \in StSenders \ {n}}
    \cup {getWriteToken(CHOOSE t \in StTargets : t # target, n)}

\* the arguments of a put of (StValue, seq) under StKey
Unsigned(n, tok, seq, salted) ==
    Args(n.id, <<>>, tok, 0, 0, StValue, StKey,
         IF salted THEN StSalt ELSE <<>>, seq, NoSig,
         {"k", "v", "seq", "sig"} \cup (IF salted THEN {"salt"} ELSE {}))

\* the signatures a peer may send with them: by the key, by another key,
\* and by the key for another seq
StSigs(a) ==
    {Sign(encodeSigData(a), StKey), Sign(encodeSigData(a), OtherKey),
     Sign(encodeSigData([a EXCEPT !.seq = 1 - @]), StKey)}

\* the puts of a sender: of StValue as an immutable value, and under StKey
StPuts(n) ==
    {[NoArgs(n.id, <<>>) EXCEPT !.token = tok, !.v = StValue, !.has = {"v"}] :
        tok \in StTokens(sha1(bencode(StValue)), n)}
    \cup UNION {{[a EXCEPT !.token = tok, !.sig = sig] :
                    tok \in StTokens(PutTarget(a), n), sig \in StSigs(a)} :
                a \in {Unsigned(n, sha1(<<>>), seq, salted) :
                          seq \in StSeqs, salted \in BOOLEAN}}

\* a token is a digest the node recomputes, so a put may come without a
\* get before it
StQueries == UNION {{Query("put", a, n) : a \in StPuts(n)} : n \in StSenders}

STNext ==
    \E q \in StQueries : handleQuery_(q.method, q.args, q.node) /\ OnlyInbound

SpecST == INInit /\ [][STNext]_vars

\* C21: the put handler rejects a mutable put when the node stores a record
\* of the same target with a higher seq: over any sequence of puts, the seq
\* stored for a mutable target never decreases.
C21_StoredSeqNeverDecreases ==
    [][\A t \in StTargets :
          (NmHas(store_["store_"], t) /\ NmHas(store_'["store_"], t))
              => NmGet(store_'["store_"], t).seq
                    >= NmGet(store_["store_"], t).seq]_vars

\* the put handled last had a token made for its target and the address of
\* its sender, and, if it is mutable, a signature by its key
Acceptable ==
    /\ verifyToken(heard.args.token, PutTarget(heard.args), heard.node)
    /\ "sig" \in heard.args.has
          => Verify(heard.args.sig, encodeSigData(heard.args), heard.args.k)

\* C22: the put handler stores a record only if the token verifies against
\* the target recomputed from the payload and the address of the sender
\* and, for a mutable record, the signature verifies under k; in every other
\* case the store is unchanged and no {id} response is sent.
C22_PutStoresOnlyVerified ==
    heard.method = "put"
        => IF Acceptable
           THEN /\ heard.y = "r"
                /\ NmHas(store_["store_"], PutTarget(heard.args))
                /\ NmGet(store_["store_"], PutTarget(heard.args)).v
                      = heard.args.v
           ELSE ~heard.changed /\ heard.y # "r"

\* a put with a good token and a signature made for another seq came in
\* for a target that has a record, and was refused
C22_Witness ==
    /\ heard.method = "put"
    /\ "sig" \in heard.args.has
    /\ verifyToken(heard.args.token, PutTarget(heard.args), heard.node)
    /\ ~Verify(heard.args.sig, encodeSigData(heard.args), heard.args.k)
    /\ NmHas(store_["store_"], PutTarget(heard.args))
    /\ NmGet(store_["store_"], PutTarget(heard.args)).seq # heard.args.seq
    /\ heard.threw = "Bad signature"


(***************************************************************************)
(* put with payloads inside and outside the limits: a value of 1001 bytes, *)
(* a salt of 65 bytes and a public key that is one byte short.             *)
(***************************************************************************)
MaxPuts == 1        \* puts that are written in one run

LongValue == [i \in 1..(MaxValueLength + 1) |-> 118]
LongSalt == [i \in 1..(MaxSaltLength + 1) |-> 115]
ShortKey == SubSeq(Key, 1, PublicKeyLength - 1)

PUTNext ==
    \/ \E me, boot \in 1..Len(NetIds) : listen(me, boot) /\ OnlyNetwork
    \/ \E me \in 1..Len(NetIds) : \E v \in {Value, LongValue} :
          /\ Len(journal.puts) < MaxPuts
          /\ putImmutable_(me, v)
          /\ OnlyNetwork
    \/ \E me \in 1..Len(NetIds) : \E k \in {Key, ShortKey} :
       \E opt_salt \in {<<>>, <<Salt>>, <<LongSalt>>} :
       \E v \in {Versions[1], LongValue} :
          /\ Len(journal.puts) < MaxPuts
          /\ put(me, k, opt_salt, v, 0)
          /\ OnlyNetwork

SpecPUT == NETInit /\ [][PUTNext]_vars

\* the records the nodes of the network store
Stored ==
    UNION {{network[a].store[i].obj : i \in 1..Len(network[a].store)} :
              a \in 1..Len(NetIds)}

\* C23: a put whose payload breaks a size rule (v of more than 1000 bytes,
\* a salt of more than 64, a public key of other than 32) fails towards the
\* caller, and the record never leaves the node: no 'put' query with it is
\* sent to any peer.
C23_OversizeNeverSent ==
    /\ \A rec \in Stored :
          /\ Len(rec.v) <= MaxValueLength
          /\ "salt" \in rec.has => Len(rec.salt) <= MaxSaltLength
          /\ "k" \in rec.has => Len(rec.k) = PublicKeyLength
    /\ journal.last.op = "put"
          => /\ journal.last.threw # "" => journal.last.sent = <<>>
             /\ journal.last.threw = "" => journal.last.sent # <<>>

\* a put of a value of 1001 bytes under a good key and salt ran its lookup
\* in a network of three nodes, threw, and sent no 'put'
C23_Witness ==
    /\ journal.last.op = "put"
    /\ journal.last.threw = "v must be less than 1000 bytes"
    /\ journal.last.target = MutableTarget
    /\ journal.last.rec.v = LongValue
    /\ journal.last.sent = <<>>
    /\ \A a \in 1..Len(NetIds) : network[a].listening
    /\ Len(network[journal.last.from].contacts) = Len(NetIds)


(***************************************************************************)
(* DHT.dispose with work in flight: a lookup with queries outstanding, and *)
(* insertions into a table of K = SmallK that wait for a ping.             *)
(***************************************************************************)
DSPInit ==
    /\ NewRoutingTable(SmallK)
    /\ found = NotAsked
    /\ NewSocket(DefaultTimeout)
    /\ lookup = NoLookup
    /\ NoTracker

DSPNext ==
    \/ \E target \in LkTargets :
          closest_(target, "find_node", FALSE, InOrder) /\ OnlyLookup
    \/ \E msg \in LkMessages : DhtMessage(msg, InOrder) /\ OnlyLookup
    \/ \E q \in 1..Len(queries) : DhtTimeout(q, InOrder) /\ OnlyLookup
    \/ \E i \in 1..Len(inflight) : \E responded \in BOOLEAN :
          PingCallback(i, responded) /\ OnlyTable
    \/ \E i \in 1..Len(inflight) : PingTimeout(i) /\ OnlyTable
    \/ \E i \in 1..Len(inflight) : Resume(i) /\ OnlyTable
    \/ DhtDispose /\ OnlyLookup

SpecDSP == DSPInit /\ [][DSPNext]_vars

\* C24: dispose() of a node with work in flight: every outstanding query
\* settles with the 'Socket is disposing' error, the table of outstanding
\* transactions is empty, every transaction timer is cleared, so that no
\* 'timeout' is emitted afterwards, and the routing table is empty and
\* stays empty: later recordQuery and recordResponse calls and the
\* insertions that waited for a ping when dispose ran insert nothing.
C24_DisposeSettlesAndEmpties ==
    /\ [](rpcDisposed
            => /\ outstanding = [tid \in Tids |-> 0]
               /\ \A q \in Qs : ~IsPending(q) /\ queries[q].timer # "armed"
               /\ isDisposed
               /\ nodeMap = <<>>
               /\ buckets = <<>>)
    /\ [][(~rpcDisposed /\ rpcDisposed')
            => \A q \in Qs :
                  IsPending(q)
                     => queries'[q].promise
                           = Fulfilled(Caught(SocketIsDisposing))]_vars
    /\ [][rpcDisposed
            => /\ Len(queries') = Len(queries)
               /\ \A q \in Qs : queries'[q].timeouts = queries[q].timeouts]_vars

\* dispose ran while a query of the lookup was outstanding and an insertion
\* waited for a ping; the query was rejected, and the insertion, resumed
\* after dispose, returned without inserting
C24_Witness ==
    /\ rpcDisposed
    /\ \E q \in Qs : queries[q].promise = Fulfilled(Caught(SocketIsDisposing))
    /\ last.op = "resume"
    /\ last.res = "disposed"
    /\ nodeMap = <<>>


(***************************************************************************)
(* KRPCSocket.handleMessage_ on any datagram: one that bencode cannot      *)
(* decode, and dictionaries in which any one entry is missing or whose y   *)
(* is unknown.  `has` names the entries that are there: t, y, q, a and     *)
(* a.id (id), r and e.                                                     *)
(***************************************************************************)
Entries == {"t", "y", "q", "a", "id", "r", "e"}

Datagram(decodes, has, y, t, from) ==
    [decodes |-> decodes, has |-> has, y |-> y, t |-> t, from |-> from]

Datagrams ==
    {Datagram(FALSE, {}, "", 1, 1)}
    \cup {Datagram(TRUE, has, y, t, 1) :
            has \in {Entries} \cup {Entries \ {x} : x \in Entries},
            y \in {"q", "r", "e", "x"}, t \in Tids}

\* what handling a datagram did: the socket it leaves, the TypeError it
\* threw out of the 'message' listener, the event it emitted, and the socket
\* as the listeners of that event found it
Done(s, threw, emitted, seen) ==
    [s |-> s, threw |-> threw, emitted |-> emitted, seen |-> seen]

\* handleMessage_(msg, rinfo): the try block covers bencode.decode, bmsg.t
\* and bmsg.y only; this.emit('response', node, bmsg.r) is the statement
\* before resolve({node, r})
MessageHandled(s, d) ==
    IF ~d.decodes \/ "t" \notin d.has \/ "y" \notin d.has
    THEN Done(s, "", "", s)
    ELSE IF d.y \in {"r", "e"}
    THEN IF s.out[d.t] = 0 THEN Done(s, "", "", s)
         ELSE IF d.y = "r"
         THEN IF "r" \notin d.has THEN Done(s, "TypeError", "", s)
              ELSE Done(HandleReply(s,
                            Message("r", d.t,
                                    Payload(MkId(1, 0, 0), FALSE, <<>>, FALSE),
                                    NoE, NoId, d.from)),
                        "", "response", s)
         ELSE IF "e" \notin d.has THEN Done(s, "TypeError", "", s)
              ELSE Done(HandleReply(s,
                            Message("e", d.t, UndefinedR,
                                    CHOOSE e \in KErrors : TRUE, NoId,
                                    d.from)),
                        "", "", s)
    ELSE IF d.y = "q"
    THEN IF "q" \notin d.has \/ "a" \notin d.has
         THEN Done(s, "TypeError", "", s)
         ELSE Done(s, "", "query", s)
    ELSE Done(s, "", "", s)

\* the datagram handled last and what handling it did; q is the query of
\* its transaction, and outstandingSeen and timerSeen are what the
\* listeners of the emitted event found for it
Received(d, done, q) ==
    [op |-> "datagram", msg |-> d, q |-> q, threw |-> done.threw,
     emitted |-> done.emitted, changed |-> done.s # done.seen,
     outstandingSeen |-> q # 0 /\ done.seen.out[d.t] = q,
     timerSeen |-> IF q = 0 THEN "none" ELSE done.seen.qs[q].timer]

datagram(d) ==
    /\ ~rpcDisposed
    /\ \E done \in {MessageHandled(Here, d)} :
          /\ Now(done.s)
          /\ rpcLast' = Received(d, done,
                                 IF done.emitted = "response"
                                 THEN outstanding[d.t] ELSE 0)
    /\ UNCHANGED <<RESPONSE_TIMEOUT_, rpcDisposed>>

MSGNext ==
    \/ \E peer \in KPeers : \E tid \in Tids : query(peer, tid) /\ OnlySocket
    \/ \E d \in Datagrams : datagram(d) /\ OnlySocket

SpecMSG == KRPCInit /\ [][MSGNext]_vars

\* a datagram the claim calls malformed
Malformed(d) ==
    \/ ~d.decodes
    \/ "t" \notin d.has
    \/ "y" \notin d.has
    \/ d.y \notin {"q", "r", "e"}
    \/ d.y = "q" /\ ("a" \notin d.has \/ "id" \notin d.has)
    \/ d.y = "r" /\ "r" \notin d.has
    \/ d.y = "e" /\ "e" \notin d.has

\* C25: a datagram that is malformed or lacks an entry (undecodable, no t,
\* no y, unknown y, a query without a or a.id, a response without r, an
\* error without e) is dropped: handling it raises no exception, emits no
\* 'query' or 'response' (the events whose listeners write the routing
\* table), and leaves the outstanding transactions as they were.
C25_MalformedDropped ==
    (rpcLast.op = "datagram" /\ Malformed(rpcLast.msg))
        => /\ rpcLast.threw = ""
           /\ rpcLast.emitted = ""
           /\ ~rpcLast.changed

\* C26: 'response' is emitted after its transaction has been resolved:
\* when the listeners of 'response' run, the transaction ID is no longer
\* outstanding and the timer of the transaction has been cleared.
C26_ResponseAfterResolve ==
    (rpcLast.op = "datagram" /\ rpcLast.emitted = "response")
        => /\ ~rpcLast.outstandingSeen
           /\ rpcLast.timerSeen # "armed"


(***************************************************************************)
(* The DHT on its routing table and its socket: the 'ping' event of the    *)
(* table is answered by handleBucketPing_, the 'timeout' and 'response'    *)
(* events of the socket by handleNodeTimeout_ and handleNodeResponse_.     *)
(* Every contact lives at the address its ID ends in.  With the default    *)
(* timeout of 2 s the timer of a query fires before the 5 s timer of       *)
(* _ping, so the callback of a ping is never ignored.                      *)
(***************************************************************************)
MaxPings == 3       \* queries made in one run

\* this.pendingPings_[key]: the pending ping to an address, 0 for none
PendingPing(s, address) ==
    IF \E q \in 1..Len(s.qs) : /\ s.qs[q].promise.state = "pending"
                               /\ s.qs[q].peer.address = address
    THEN CHOOSE q \in 1..Len(s.qs) : /\ s.qs[q].promise.state = "pending"
                                     /\ s.qs[q].peer.address = address
    ELSE 0

\* recordNoResponse(nodeInfo) as a function of the Node objects
NoResponseRecorded(hp, nm, id) ==
    IF NmHas(nm, id)
    THEN [hp EXCEPT ![NmGet(nm, id)].failedResponses = @ + 1]
    ELSE hp

\* recordResponse(nodeInfo) of a contact of the table
ResponseRecorded(hp, nm, id, time) ==
    [hp EXCEPT ![NmGet(nm, id)].lastResponse = time,
               ![NmGet(nm, id)].failedResponses = 0]

\* handleBucketPing_: const res = await this.ping(node);
\* callback(!!res.error), and in the callback of _ping: if (responded)
\* { lastResponse = now; failedResponses = 0 } else failedResponses += 1
CalledBack(n, error, time) ==
    IF error
    THEN [n EXCEPT !.lastResponse = time, !.failedResponses = 0]
    ELSE [n EXCEPT !.failedResponses = @ + 1]

\* the insertions that wait for the ping to an address
WaitingFor(address) ==
    {i \in 1..Len(inflight) :
        /\ inflight[i].st = "wait"
        /\ AddressOf(heap[inflight[i].check].id) = address}

\* the ping to an address settled, with an error or not: the continuation
\* of handleBucketPing_ calls back every _ping that waits for it
Settled(hp, address, error) ==
    [o \in DOMAIN hp |->
        IF \E i \in WaitingFor(address) : inflight[i].check = o
        THEN CalledBack(hp[o], error, now) ELSE hp[o]]

Resolved(address, error) ==
    [i \in DOMAIN inflight |->
        IF i \in WaitingFor(address)
        THEN [inflight[i] EXCEPT !.st = IF error THEN "yes" ELSE "no"]
        ELSE inflight[i]]

\* DHT.ping(peer): a ping still pending to the address is reused
ping(peer, tid) ==
    IF PendingPing(Here, peer.address) # 0
    THEN UNCHANGED <<outstanding, queries>>
    ELSE /\ Len(queries) < MaxPings
         /\ tid \in FreeTids(Here)
         /\ Now(transact_(Here, peer, tid, RESPONSE_TIMEOUT_))

\* the 'ping' listener, when the step emitted 'ping' for a contact
handleBucketPing_(tid) ==
    IF last'.res = "ping"
    THEN \E id \in {heap'[last'.ping].id} :
            ping(NodeInfo(id, AddressOf(id)), tid)
    ELSE UNCHANGED <<outstanding, queries>>

\* a query arrives from a node: handleQuery_ records it, and an insertion
\* that starts eviction proceedings pings the contact it checks
EvQuery(id, tid) ==
    /\ recordQuery(id)
    /\ handleBucketPing_(tid)
    /\ rpcLast' = Handled("message",
                          Message("q", 1, UndefinedR, NoE, id, AddressOf(id)),
                          0)
    /\ UNCHANGED <<RESPONSE_TIMEOUT_, rpcDisposed>>

\* the host pings a contact
EvPing(id, tid) ==
    /\ NmHas(nodeMap, id)
    /\ PendingPing(Here, AddressOf(id)) = 0
    /\ ping(NodeInfo(id, AddressOf(id)), tid)
    /\ rpcLast' = Handled("query", NoMessage, Len(queries) + 1)
    /\ UNCHANGED <<rtVars, RESPONSE_TIMEOUT_, rpcDisposed>>

\* the timer of a query fires: 'timeout' goes to handleNodeTimeout_, the
\* query is rejected, and the continuations of the ping run
EvTimeout(q) ==
    /\ queries[q].timer = "armed"
    /\ \A o \in DOMAIN heap : heap[o].failedResponses < MaxFail
    /\ Now(OnTimeout(Here, q))
    /\ rpcLast' = Handled("timeout", NoMessage, q)
    /\ heap' = Settled(NoResponseRecorded(heap, nodeMap, queries[q].peer.id),
                       queries[q].peer.address, TRUE)
    /\ misses' = [o \in DOMAIN misses |->
                    IF NmHas(nodeMap, queries[q].peer.id)
                       /\ o = NmGet(nodeMap, queries[q].peer.id)
                    THEN misses[o] + 1 ELSE misses[o]]
    /\ inflight' = Resolved(queries[q].peer.address, TRUE)
    /\ last' = Quiet
    /\ UNCHANGED <<localId, K, isDisposed, now, buckets, nodeMap,
                   RESPONSE_TIMEOUT_, rpcDisposed>>

\* the contact a query went to answers it: 'response' goes to
\* handleNodeResponse_, the query is resolved, and the continuations of the
\* ping run
EvResponse(q) ==
    /\ IsPending(q)
    /\ NmHas(nodeMap, queries[q].peer.id)
    /\ \A o \in DOMAIN heap : heap[o].failedResponses < MaxFail
    /\ \E msg \in {Message("r", queries[q].tid,
                           Payload(queries[q].peer.id, FALSE, <<>>, FALSE),
                           NoE, NoId, queries[q].peer.address)} :
          /\ Now(HandleReply(Here, msg))
          /\ rpcLast' = Handled("message", msg, q)
    /\ heap' = Settled(ResponseRecorded(heap, nodeMap, queries[q].peer.id, now),
                       queries[q].peer.address, FALSE)
    /\ misses' = [misses EXCEPT ![NmGet(nodeMap, queries[q].peer.id)] = 0]
    /\ inflight' = Resolved(queries[q].peer.address, FALSE)
    /\ last' = Quiet
    /\ UNCHANGED <<localId, K, isDisposed, now, buckets, nodeMap,
                   RESPONSE_TIMEOUT_, rpcDisposed>>

\* _insertNode resumes after its ping, and pings the next contact it checks
EvResume(i, tid) ==
    /\ Resume(i)
    /\ handleBucketPing_(tid)
    /\ UNCHANGED <<RESPONSE_TIMEOUT_, rpcDisposed, rpcLast>>

OnlyDht == UNCHANGED <<clVars, lkVars, inVars>>

EVNext ==
    \/ \E id \in Ids : \E tid \in Tids : EvQuery(id, tid) /\ OnlyDht
    \/ \E id \in Ids : \E tid \in Tids : EvPing(id, tid) /\ OnlyDht
    \/ \E q \in 1..Len(queries) : EvTimeout(q) /\ OnlyDht
    \/ \E q \in 1..Len(queries) : EvResponse(q) /\ OnlyDht
    \/ \E i \in 1..Len(inflight) : \E tid \in Tids : EvResume(i, tid) /\ OnlyDht

SpecEV == DSPInit /\ [][EVNext]_vars

\* the contact a query went to, as its Node object; 0 if it is not, or no
\* longer, in the table
ContactOf(q) ==
    IF NmHas(nodeMap, queries[q].peer.id)
    THEN NmGet(nodeMap, queries[q].peer.id) ELSE 0

\* C27: when a query sent to a contact of the routing table times out, the
\* contact's failedResponses grows by exactly one, so that three timeouts
\* in a row, with no response between them, make it bad; and when the
\* contact answers a query, its failedResponses is zero afterwards.
C27_TimeoutCountsOneFailure ==
    /\ [][(rpcLast' # rpcLast /\ rpcLast'.op = "timeout"
                /\ ContactOf(rpcLast'.q) # 0)
            => heap'[ContactOf(rpcLast'.q)].failedResponses
                  = heap[ContactOf(rpcLast'.q)].failedResponses + 1]_vars
    /\ [][(rpcLast' # rpcLast /\ rpcLast'.op = "message" /\ rpcLast'.q # 0)
            => heap'[ContactOf(rpcLast'.q)].failedResponses = 0]_vars
    /\ [](\A o \in DOMAIN heap : misses[o] >= 3 => isBad(heap[o]))


(***************************************************************************)
(* DHT.listen, step by step.  `tracker` holds its activation: kind is      *)
(* "listen", status is "binding" until the callback of socket.bind runs,   *)
(* "pinging" while it awaits the pings of the bootstrap nodes, "lookup"    *)
(* while it awaits find_node(this.id), and "done" or "failed" when its     *)
(* promise is fulfilled or rejected; peers are the bootstrap nodes and     *)
(* sent the queries of their pings.                                        *)
(***************************************************************************)
BootstrapNodes ==
    {<<>>, <<NodeInfo(NoId, 1)>>, <<NodeInfo(NoId, 1), NodeInfo(NoId, 2)>>}

\* Promise.race in the place of Promise.all
BootstrappedByOne(s, pings) ==
    \/ pings = <<>>
    \/ \E i \in 1..Len(pings) : s.qs[pings[i]].promise.state # "pending"

\* await Promise.all(this.bootstrapNodes_.map(async (peer) => {
\* await this.ping(peer) }))
Bootstrapped(s, pings) ==
    \A i \in 1..Len(pings) : s.qs[pings[i]].promise.state # "pending"

\* this.ping(peer) for each bootstrap node, all at different addresses
RECURSIVE PingAll(_, _, _, _)
PingAll(s, peers, order, ms) ==
    IF peers = <<>> THEN s
    ELSE PingAll(transact_(s, Head(peers), DrawTid(s, order), ms),
                 Tail(peers), order, ms)

\* listen where it stands once the lookup lk has run as far as it can
Awaited(op, b) ==
    [op |-> IF b.lk.status # "done" THEN op
            ELSE [op EXCEPT !.status = IF b.lk.outcome = "TypeError"
                                       THEN "failed" ELSE "done"],
     lk |-> b.lk, s |-> b.s, ok |-> b.ok]

\* listen resumed after a step of the socket: find_node(this.id) after the
\* pings, `isBootstrapping_ = false` after the lookup
Listen(op, hp, nm, k, id, lk, s, order, ms) ==
    IF op.kind # "listen" THEN Awaited(op, Outcome(lk, s, TRUE))
    ELSE IF op.status = "pinging"
    THEN IF Bootstrapped(s, op.sent)
         THEN Awaited([op EXCEPT !.status = "lookup"],
                      Start(hp, nm, k, s, id, "find_node", FALSE, order, ms))
         ELSE Awaited(op, Outcome(lk, s, TRUE))
    ELSE IF op.status = "lookup"
    THEN Awaited(op, Loop(lk, s, order, ms))
    ELSE Awaited(op, Outcome(lk, s, TRUE))

Listens(l) ==
    /\ l.ok
    /\ tracker' = l.op
    /\ lookup' = l.lk
    /\ Now(l.s)

\* listen(opt_port, opt_host) as far as `await listen()`
BootListen(peers) ==
    /\ tracker.status = "idle"
    /\ tracker' = [NoOp EXCEPT !.kind = "listen", !.status = "binding",
                               !.peers = peers]
    /\ UNCHANGED <<rtVars, krpcVars, lookup>>

\* the callback of socket.bind: isBound_ = true, and the pings are sent
BootBound(order) ==
    /\ tracker.status = "binding"
    /\ Listens(Listen([tracker EXCEPT
                          !.status = "pinging",
                          !.sent = [i \in 1..Len(tracker.peers) |-> i]],
                      heap, nodeMap, K, localId, lookup,
                      PingAll(Here, tracker.peers, order, RESPONSE_TIMEOUT_),
                      order, RESPONSE_TIMEOUT_))
    /\ rpcLast' = Handled("query", NoMessage, 0)
    /\ UNCHANGED <<rtVars, RESPONSE_TIMEOUT_, rpcDisposed>>

\* a response or an error arrives at the bound socket while listen is
\* under way
BootMessage(msg, order) ==
    /\ tracker.status \in {"pinging", "lookup"}
    /\ msg.y \in {"r", "e"}
    /\ rpcLast' = Handled("message", msg, outstanding[msg.t])
    /\ IF outstanding[msg.t] = 0 \/ (msg.y = "r" /\ ~msg.r.defined)
       THEN UNCHANGED <<rtVars, outstanding, queries, lookup, tracker>>
       ELSE /\ IF msg.y = "r" THEN recordResponse(msg.r.id)
                              ELSE UNCHANGED rtVars
            /\ \E hp \in {heap'} : \E nm \in {nodeMap'} :
                  Listens(Listen(tracker, hp, nm, K, localId, lookup,
                                 HandleReply(Here, msg), order,
                                 RESPONSE_TIMEOUT_))
    /\ UNCHANGED <<RESPONSE_TIMEOUT_, rpcDisposed>>

\* the timer of a query fires while listen is under way
BootTimeout(q, order) ==
    /\ tracker.status \in {"pinging", "lookup"}
    /\ queries[q].timer = "armed"
    /\ IF queries[q].peer.id = NoId
       THEN UNCHANGED rtVars
       ELSE recordNoResponse(queries[q].peer.id)
    /\ Listens(Listen(tracker, heap, nodeMap, K, localId, lookup,
                      OnTimeout(Here, q), order, RESPONSE_TIMEOUT_))
    /\ rpcLast' = Handled("timeout", NoMessage, q)
    /\ UNCHANGED <<RESPONSE_TIMEOUT_, rpcDisposed>>

\* the answers of the nodes pinged and queried
BootMessages == {msg \in LkMessages : msg.y # "q"}

OnlyListen == UNCHANGED <<clVars, secret_, store_, issued, heard, netVars>>

BOOTNext ==
    \/ \E peers \in BootstrapNodes : BootListen(peers) /\ OnlyListen
    \/ \E order \in Orders : BootBound(order) /\ OnlyListen
    \/ \E msg \in BootMessages : BootMessage(msg, InOrder) /\ OnlyListen
    \/ \E q \in 1..Len(queries) : BootTimeout(q, InOrder) /\ OnlyListen

SpecBOOT == LKInit /\ [][BOOTNext]_vars

Pings == {tracker.sent[i] : i \in 1..Len(tracker.sent)}

\* C28: listen() binds, then pings every bootstrap node, then looks up its
\* own ID: no query is sent before the socket is bound, the lookup starts
\* only when every bootstrap ping has settled, and listen() ends only when
\* the lookup has ended, whether the bootstrap nodes answer or not.
C28_ListenOrder ==
    /\ tracker.status \in {"idle", "binding"} => queries = <<>>
    /\ tracker.status = "pinging"
          => /\ lookup.status = "idle"
             /\ \E q \in Pings : IsPending(q)
             /\ \A q \in Qs : q \in Pings
    /\ tracker.status = "lookup" => lookup.status = "running"
    /\ lookup.status # "idle"
          => /\ tracker.status \in {"lookup", "done", "failed"}
             /\ \A q \in Pings : ~IsPending(q)
             /\ lookup.target = localId
    /\ tracker.status \in {"done", "failed"} => lookup.status = "done"

\* two bootstrap nodes were pinged and neither answered: both pings timed
\* out, the lookup then ran on the empty table, and listen() returned
C28_Witness ==
    /\ tracker.status = "done"
    /\ Len(tracker.sent) = 2
    /\ \A q \in Pings :
          queries[q].promise
             = Fulfilled(Caught(TimeoutExceeded(queries[q].tid)))
    /\ lookup.outcome = "undefined"
    /\ nodeMap = <<>>


(***************************************************************************)
(* KRPCSocket.query with a list of peers.  `tracker` holds the call: kind  *)
(* is "query", peers the list and sent the query made for each peer; the   *)
(* promise it returned is Promise.all of the promises of those queries.    *)
(***************************************************************************)
PeerLists ==
    {<<>>} \cup {<<p>> : p \in KPeers} \cup {<<p, r>> : p, r \in KPeers}

\* peer.map((p) => this.query(p, method, opt_args))
QueryEach(s, peers, order, ms) == PingAll(s, peers, order, ms)

\* Promise.all(promises): rejected with the first rejection, fulfilled with
\* the values in the order of the promises once all are fulfilled
All(promises) ==
    IF \E i \in 1..Len(promises) : promises[i].state = "rejected"
    THEN [state |-> "rejected",
          value |-> <<promises[CHOOSE i \in 1..Len(promises) :
                                  promises[i].state = "rejected"].value>>]
    ELSE IF \A i \in 1..Len(promises) : promises[i].state = "fulfilled"
    THEN [state |-> "fulfilled",
          value |-> [i \in 1..Len(promises) |-> promises[i].value]]
    ELSE [state |-> "pending", value |-> <<>>]

\* query(peers, method, opt_args) with Array.isArray(peers)
queryList(peers, order) ==
    /\ tracker.status = "idle"
    /\ Len(queries) + Len(peers) <= MaxQueries
    /\ Len(peers) <= Cardinality(FreeTids(Here))
    /\ Now(QueryEach(Here, peers, order, RESPONSE_TIMEOUT_))
    /\ tracker' = [NoOp EXCEPT
                      !.kind = "query", !.status = "called", !.peers = peers,
                      !.sent = [i \in 1..Len(peers) |-> Len(queries) + i]]
    /\ rpcLast' = Handled("query", NoMessage, Len(queries) + Len(peers))
    /\ UNCHANGED <<RESPONSE_TIMEOUT_, rpcDisposed>>

OnlyQueries ==
    UNCHANGED <<rtVars, clVars, lkVars, secret_, store_, issued, heard,
                netVars>>

QRYNext ==
    \/ \E peer \in KPeers : \E tid \in Tids : query(peer, tid) /\ OnlySocket
    \/ \E peers \in PeerLists : \E order \in Orders :
          queryList(peers, order) /\ OnlyQueries
    \/ \E msg \in KMessages : handleMessage_(msg) /\ OnlySocket
    \/ \E q \in 1..Len(queries) : timeout(q) /\ OnlySocket
    \/ socketDispose /\ OnlySocket

SpecQRY == KRPCInit /\ [][QRYNext]_vars

\* the promise the call with the list returned
Combined == All([i \in 1..Len(tracker.sent) |-> queries[tracker.sent[i]].promise])

\* C29: the promise query returns is never rejected.  A timeout, an error
\* message for the transaction and dispose each fulfil it with {error}, the
\* error of an error message carrying its code and description; and the
\* promise for a list of peers is fulfilled, once every query has settled,
\* with one entry per peer, in the order of the peers.
C29_QueryNeverRejects ==
    /\ [](\A q \in Qs :
            /\ queries[q].promise.state \in {"pending", "fulfilled"}
            /\ queries[q].timer = "fired"
                  => queries[q].promise
                        = Fulfilled(Caught(TimeoutExceeded(queries[q].tid))))
    /\ []((rpcLast.op = "message" /\ rpcLast.msg.y = "e" /\ rpcLast.q # 0)
            => /\ queries[rpcLast.q].promise
                     = Fulfilled(Caught(KRPCError(rpcLast.msg.e,
                                                  rpcLast.msg.from)))
               /\ queries[rpcLast.q].promise.value.error.code
                     = rpcLast.msg.e.code
               /\ queries[rpcLast.q].promise.value.error.message
                     = rpcLast.msg.e.description)
    /\ [][(~rpcDisposed /\ rpcDisposed')
            => \A q \in Qs :
                  IsPending(q)
                     => queries'[q].promise
                           = Fulfilled(Caught(SocketIsDisposing))]_vars
    /\ [](tracker.kind = "query"
            => /\ Combined.state # "rejected"
               /\ Combined.state = "fulfilled"
                     <=> \A i \in 1..Len(tracker.sent) :
                            ~IsPending(tracker.sent[i])
               /\ Combined.state = "fulfilled"
                     => /\ Len(Combined.value) = Len(tracker.peers)
                        /\ \A i \in 1..Len(tracker.peers) :
                              /\ queries[tracker.sent[i]].peer
                                    = tracker.peers[i]
                              /\ Combined.value[i]
                                    = queries[tracker.sent[i]].promise.value)

\* a query to a list of two peers: the first was answered with an error
\* message and the second timed out, and the promise for the list is
\* fulfilled with the two errors
C29_Witness ==
    /\ tracker.kind = "query"
    /\ Len(tracker.peers) = 2
    /\ Combined.state = "fulfilled"
    /\ Combined.value[1].error.code = 201
    /\ Combined.value[2].error.message = "Timeout exceeded"


(***************************************************************************)
(* C30: the announcements kept for an info_hash (in SpecIN).               *)
(***************************************************************************)
\* the announcements stored under a target, as a set
Announcements(store, target) ==
    IF NmHas(store, target)
    THEN {NmGet(store, target)[i] : i \in 1..Len(NmGet(store, target))}
    ELSE {}

\* the (IPv4, port) tuple an announce stands for
Announcer(h) ==
    [address |-> IpParts(h.node.address),
     port |-> IF h.args.implied_port # 0 THEN h.node.port ELSE h.args.port]

\* C30: the announcements of an info_hash are a set of (IPv4, port) tuples:
\* an accepted announce adds the tuple of the sender's address and of the
\* source port of the datagram when implied_port is set, of the argument
\* `port` otherwise; it adds nothing else, and nothing when the tuple is
\* there already; no tuple is stored twice.
C30_AnnouncementsAreASet ==
    /\ [](\A t \in InTargets :
            NmHas(store_["announcedPeers_"], t)
               => /\ Cardinality(Announcements(store_["announcedPeers_"], t))
                        = Len(NmGet(store_["announcedPeers_"], t))
                  /\ \A e \in Announcements(store_["announcedPeers_"], t) :
                        /\ Len(e) = 6
                        /\ \E n \in InSenders : \E port \in Ports :
                              e = encodeCompactNodeInfo(n.address, port))
    /\ [][(/\ secret_' = secret_
           /\ heard'.method = "announce_peer"
           /\ heard'.y = "r")
            => /\ {decodeCompactPeerInfo(e) :
                      e \in Announcements(store_'["announcedPeers_"],
                                          heard'.target)}
                     = {decodeCompactPeerInfo(e) :
                          e \in Announcements(store_["announcedPeers_"],
                                              heard'.target)}
                       \cup {Announcer(heard')}
               /\ \A t \in InTargets \ {heard'.target} :
                     Announcements(store_'["announcedPeers_"], t)
                        = Announcements(store_["announcedPeers_"], t)]_vars

\* an announce with implied_port set, from a source port other than its
\* argument `port`, was accepted a second time: the set holds its tuple
\* with the source port, next to the tuple of another announce, and did not
\* change
C30_Witness ==
    /\ heard.method = "announce_peer"
    /\ heard.y = "r"
    /\ ~heard.changed
    /\ heard.args.implied_port # 0
    /\ heard.node.port # heard.args.port
    /\ Cardinality(Announcements(store_["announcedPeers_"], heard.target)) >= 2
    /\ encodeCompactNodeInfo(heard.node.address, heard.node.port)
          \in Announcements(store_["announcedPeers_"], heard.target)
    /\ encodeCompactNodeInfo(heard.node.address, heard.args.port)
          \notin Announcements(store_["announcedPeers_"], heard.target)


(***************************************************************************)
(* C31: the eviction ping of the assembled DHT (in SpecEV).                *)
(***************************************************************************)
\* the ping an insertion waited for: the last query made to the address of
\* the contact it checks
PingOf(e) ==
    CHOOSE q \in Qs :
        /\ queries[q].peer.address = AddressOf(heap[e.check].id)
        /\ \A p \in Qs :
              queries[p].peer.address = AddressOf(heap[e.check].id) => p <= q

\* the contact answered the ping
Alive(e) == queries[PingOf(e)].promise.value.error = NoError

\* an insertion resumes after its ping in this step
Resumes ==
    /\ inflight # <<>>
    /\ inflight[1].st # "wait"
    /\ inflight' # inflight

\* C31: in the assembled DHT, when a new contact C waits at a full leaf for
\* the ping of an unknown contact U: if U answered the ping, U is kept and
\* C is not inserted in its place; if the ping timed out, U is replaced by
\* C.
C31_AnsweredKeptSilentReplaced ==
    [][Resumes
        => IF Alive(inflight[1])
           THEN /\ last'.res # "replace"
                /\ NmHas(nodeMap', heap[inflight[1].check].id)
           ELSE /\ last'.res = "replace"
                /\ ~NmHas(nodeMap', heap[inflight[1].check].id)
                /\ NmHas(nodeMap', heap[inflight[1].node].id)]_vars


(***************************************************************************)
(* C32: insertions suspended on a ping, interleaved with the other         *)
(* operations of the table (in SpecRT).                                    *)
(***************************************************************************)
\* the Node objects the ID map names, and those the buckets hold
Mapped(nm) == {nm[i].obj : i \in 1..Len(nm)}
Held(bk) ==
    {bk[p].contacts[j] : <<p, j>> \in
        {<<p, j>> \in (DOMAIN bk) \X (1..MaxNodes) : j <= Len(bk[p].contacts)}}

\* the places of the buckets that hold the Node object o
Places(bk, o) ==
    {<<p, j>> \in (DOMAIN bk) \X (1..MaxNodes) :
        j <= Len(bk[p].contacts) /\ bk[p].contacts[j] = o}

\* C32: with insertions suspended on eviction pings and resumed in any
\* order among the other operations, the ID map and the buckets describe
\* the same contacts, no ID is there twice, and the eviction that ends an
\* insertion removes no contact but the one whose ping failed.
C32_ConsistentUnderInterleaving ==
    /\ [](/\ Mapped(nodeMap) = Held(buckets)
          /\ \A o \in Held(buckets) : Cardinality(Places(buckets, o)) = 1
          /\ \A o, u \in Held(buckets) : heap[o].id = heap[u].id => o = u
          /\ \A i, j \in 1..Len(nodeMap) :
                nodeMap[i].key = nodeMap[j].key => i = j)
    /\ [][\A i \in 1..Len(inflight) :
             (inflight[i].st = "no" /\ last'.op = "resume"
                 /\ last'.res = "replace" /\ last'.node = inflight[i].node)
                => Held(buckets) \ Held(buckets') \subseteq {inflight[i].check}]_vars


(***************************************************************************)
(* C33: where _split cuts a range (in SpecRT).  IDs are numbers written    *)
(* big-endian in bytes; the midpoint of the claim is computed on them with *)
(* carries.                                                                *)
(***************************************************************************)
\* a + b, one byte longer than a and b
RECURSIVE AddDigits(_, _, _, _)
AddDigits(a, b, i, carry) ==
    IF i = 0 THEN <<carry>>
    ELSE AddDigits(a, b, i - 1, (a[i] + b[i] + carry) \div 256)
            \o <<(a[i] + b[i] + carry) % 256>>

\* s / 2, digit by digit from the most significant
RECURSIVE HalveFrom(_, _, _)
HalveFrom(s, i, rem) ==
    IF i > Len(s) THEN <<>>
    ELSE <<(rem * 256 + s[i]) \div 2>>
            \o HalveFrom(s, i + 1, (rem * 256 + s[i]) % 2)

\* (min + max) / 2
NumMid(min, max) == Tail(HalveFrom(AddDigits(min, max, Len(min), 0), 1, 0))

\* max = min + 1
OneWide(min, max) ==
    AddDigits(min, [i \in 1..Len(min) |-> IF i = Len(min) THEN 1 ELSE 0],
              Len(min), 0) = <<0>> \o max

\* C33: a split bucket [min, max) has the children [min, m) and [m, max)
\* with m = (min + max) / 2, the arithmetic midpoint of the two IDs; the
\* split moves every contact to the child whose range contains its ID; and
\* a split is refused only for a range one ID wide.
C33_SplitAtMidpoint ==
    /\ [](\A p \in Paths :
            buckets[p].split
               => /\ buckets[Left(p)].min = buckets[p].min
                  /\ buckets[Left(p)].max
                        = NumMid(buckets[p].min, buckets[p].max)
                  /\ buckets[Right(p)].min
                        = NumMid(buckets[p].min, buckets[p].max)
                  /\ buckets[Right(p)].max = buckets[p].max)
    /\ [][\A p \in Paths :
             (~buckets[p].split /\ p \in DOMAIN buckets' /\ buckets'[p].split)
                => \A j \in 1..Len(buckets[p].contacts) :
                      \E c \in {Left(p), Right(p)} :
                         /\ \E k \in 1..Len(buckets'[c].contacts) :
                               buckets'[c].contacts[k] = buckets[p].contacts[j]
                            \/ buckets'[c].split
                         /\ NumLE(buckets'[c].min,
                                  heap[buckets[p].contacts[j]].id)
                         /\ NumLT(heap[buckets[p].contacts[j]].id,
                                  buckets'[c].max)]_vars
    /\ [](\A p \in Leaves :
            SplitRefused(buckets[p])
               => OneWide(buckets[p].min, buckets[p].max))


(***************************************************************************)
(* One eviction with several unknown contacts: a table with K = 2 and      *)
(* three IDs on the side of the root that does not hold the local ID, so   *)
(* that the third finds a full leaf that cannot be split.  No query times   *)
(* out here: a contact fails only by the ping of an eviction.              *)
(***************************************************************************)
PairK == 2          \* options.K of the table whose evictions ping in turn

NearIds == {MkId(60, 228, 1),                   \* 3c e4 ..
            MkId(44, 4, 2),                     \* 2c 04 ..
            MkId(29, 17, 4)}                    \* 1d 11 ..

PRInit ==
    /\ NewRoutingTable(PairK)
    /\ found = NotAsked
    /\ NoSocket
    /\ lookup = NoLookup
    /\ NoTracker

PRNext ==
    \/ \E id \in NearIds : recordQuery(id) /\ OnlyTable
    \/ \E id \in NearIds : recordResponse(id) /\ OnlyTable
    \/ \E i \in 1..Len(inflight) : \E responded \in BOOLEAN :
          PingCallback(i, responded) /\ OnlyTable
    \/ \E i \in 1..Len(inflight) : PingTimeout(i) /\ OnlyTable
    \/ \E i \in 1..Len(inflight) : Resume(i) /\ OnlyTable
    \/ dispose /\ OnlyTable
    \/ Tick /\ OnlyTable

SpecPR == PRInit /\ [][PRNext]_vars

\* the contacts an eviction has still to ping, the one being pinged first
PingOrder(e) == <<e.check>> \o e.unknown

\* the insertion of Node object n suspended on a ping
Evicting(infl, n) == {i \in 1..Len(infl) : infl[i].node = n}

\* C34: the eviction that starts with a ping has queued exactly the
\* contacts of the leaf that are not good, each once, in ascending order of
\* lastResponse (never responded first), and pings the first; a resumed
\* eviction emits a ping only when the previous ping was answered alive,
\* and then to the next contact of that order; when the previous ping
\* failed the contact is replaced and the eviction is over, with no further
\* ping.
C34_PingsInTurn ==
    /\ [][(last'.op = "insert" /\ last'.res = "ping")
            => \E e \in {inflight'[Len(inflight')]} :
                  /\ last'.ping = e.check
                  /\ \A o \in 1..Len(heap') :
                        (\E j \in 1..Len(PingOrder(e)) : PingOrder(e)[j] = o)
                           <=> /\ \E k \in 1..Len(buckets'[e.at].contacts) :
                                     buckets'[e.at].contacts[k] = o
                               /\ ~isGood(heap'[o])
                  /\ \A j, k \in 1..Len(PingOrder(e)) :
                        j < k => /\ PingOrder(e)[j] # PingOrder(e)[k]
                                 /\ heap'[PingOrder(e)[j]].lastResponse
                                       <= heap'[PingOrder(e)[k]].lastResponse]_vars
    /\ [][\A i \in 1..Len(inflight) :
             (last'.op = "resume" /\ last'.node = inflight[i].node)
                => /\ inflight[i].st # "wait"
                   /\ last'.res = "ping"
                         => /\ inflight[i].st = "yes"
                            /\ inflight[i].unknown # <<>>
                            /\ last'.ping = Head(inflight[i].unknown)
                            /\ \A j \in Evicting(inflight', inflight[i].node) :
                                  /\ inflight'[j].st = "wait"
                                  /\ PingOrder(inflight'[j]) = inflight[i].unknown
                   /\ (inflight[i].st = "no" /\ ~isDisposed)
                         => /\ last'.res = "replace"
                            /\ Evicting(inflight', inflight[i].node) = {}]_vars
    /\ [][last'.res = "ping" => last'.op \in {"insert", "resume"}]_vars

\* a second contact is pinged after the first, which had never responded,
\* answered alive; the second had responded before
C34_Witness ==
    /\ K = PairK
    /\ last.op = "resume"
    /\ last.res = "ping"
    /\ heap[last.ping].lastResponse # Null
    /\ \E o \in 1..Len(heap) :
          /\ o # last.ping
          /\ IndexOf(buckets[last.at].contacts, o)
                > IndexOf(buckets[last.at].contacts, last.ping)
          /\ IndexOf(buckets[last.at].contacts, last.ping) > 0


(***************************************************************************)
(* The deadline of _ping (in SpecDL).  The timer and the callback handed   *)
(* to the 'ping' listener share the flag `failed`; st = "timeout" says     *)
(* that the timer has set it.  A listener that never calls back, or no     *)
(* listener at all, is a run in which PingCallback is never taken.  No      *)
(* query times out here: a contact fails only by a ping.                   *)
(***************************************************************************)
\* the callback's body after `if (failed) return`
PingAnswered(hp, o, responded, failed) ==
    IF responded
    THEN [hp EXCEPT ![o].lastResponse = now, ![o].failedResponses = 0]
    ELSE [hp EXCEPT ![o].failedResponses = @ + 1]

\* the callback handed to the 'ping' listener
PingCalled(hp, o, responded, failed) ==
    IF failed THEN hp ELSE PingAnswered(hp, o, responded, failed)

\* setTimeout(() => { failed = true; resolve(false); }, 5000)
PingDeadline(i) ==
    LET e == inflight[i] IN
    /\ e.st = "wait"
    /\ inflight' = [inflight EXCEPT ![i].st = "timeout"]
    /\ last' = Observed("deadline", e.node, e.at, "none", e.check)
    /\ UNCHANGED <<localId, K, isDisposed, now, buckets, nodeMap, heap, misses>>

\* the listener calls back after the timer has fired
PingLate(i, responded) ==
    LET e == inflight[i] IN
    /\ e.st = "timeout"
    /\ responded \/ heap[e.check].failedResponses < MaxFail
    /\ heap' = PingCalled(heap, e.check, responded, TRUE)
    /\ last' = Observed("late", e.node, e.at, "none", e.check)
    /\ UNCHANGED <<localId, K, isDisposed, now, buckets, nodeMap, inflight,
                   misses>>

DLNext ==
    \/ \E id \in Ids : recordQuery(id) /\ OnlyTable
    \/ \E id \in Ids : recordResponse(id) /\ OnlyTable
    \/ \E i \in 1..Len(inflight) : \E responded \in BOOLEAN :
          PingCallback(i, responded) /\ OnlyTable
    \/ \E i \in 1..Len(inflight) : PingDeadline(i) /\ OnlyTable
    \/ \E i \in 1..Len(inflight) : \E responded \in BOOLEAN :
          PingLate(i, responded) /\ OnlyTable
    \/ \E i \in 1..Len(inflight) : Resume(i) /\ OnlyTable
    \/ dispose /\ OnlyTable
    \/ Tick /\ OnlyTable

\* the timer fires 5 s after it was set and the awaiting _insertNode runs
\* when its promise is resolved
SpecDL ==
    /\ RTInit
    /\ [][DLNext]_vars
    /\ WF_vars(\E i \in 1..Len(inflight) : PingDeadline(i) /\ OnlyTable)
    /\ WF_vars(\E i \in 1..Len(inflight) : Resume(i) /\ OnlyTable)

\* Node object o is held by a bucket
InTable(bk, o) ==
    \E p \in DOMAIN bk : \E j \in 1..Len(bk[p].contacts) : bk[p].contacts[j] = o

\* C35: a ping that the listener does not answer is failed by the timer of
\* _ping, which touches no contact; the eviction then ends, and unless the
\* table was disposed of it ends by replacing: the pinged contact is out of
\* the table and the new one in; every suspended eviction ends; and a
\* callback after the deadline changes neither the contacts nor the
\* suspended eviction nor the table.
C35_DeadlineHolds ==
    /\ [][last'.op = "deadline"
            => /\ heap' = heap
               /\ buckets' = buckets
               /\ nodeMap' = nodeMap
               /\ \A i \in 1..Len(inflight) : inflight[i].st = "wait"]_vars
    /\ [][\A i \in 1..Len(inflight) :
             (inflight[i].st = "timeout" /\ last'.op = "resume")
                => IF isDisposed THEN last'.res = "disposed"
                   ELSE /\ last'.res = "replace"
                        /\ inflight' = <<>>
                        /\ ~InTable(buckets', inflight[i].check)
                        /\ InTable(buckets', inflight[i].node)
                        /\ NmGet(nodeMap', heap[inflight[i].node].id)
                              = inflight[i].node]_vars
    /\ [][last'.op = "late"
            => /\ heap' = heap
               /\ inflight' = inflight
               /\ buckets' = buckets
               /\ nodeMap' = nodeMap]_vars
    /\ (\E i \in 1..Len(inflight) : inflight[i].st = "wait")
          ~> (inflight = <<>>)

\* the listener has called back after the deadline, for a contact that
\* has never responded
C35_Witness ==
    /\ last.op = "late"
    /\ \E i \in 1..Len(inflight) :
          /\ inflight[i].st = "timeout"
          /\ inflight[i].check = last.ping
    /\ InTable(buckets, last.ping)
    /\ heap[last.ping].lastResponse = Null
    /\ heap[last.ping].failedResponses = 0


(***************************************************************************)
(* A lookup whose responses carry node lists that name one peer twice (in  *)
(* SpecDUP).                                                               *)
(***************************************************************************)
DupNodeLists ==
    {<<NodeInfo(id, AddressOf(id)), NodeInfo(id, AddressOf(id))>> :
        id \in LkIds}

DupMessages ==
    {Message("r", t, Payload(id, TRUE, nodes, FALSE), NoE, NoId,
             AddressOf(id)) :
        t \in Tids, id \in LkIds, nodes \in DupNodeLists}
    \cup {Message("q", 1, UndefinedR, NoE, id, AddressOf(id)) : id \in LkIds}

DUPNext ==
    \/ \E target \in LkTargets : \E order \in Orders :
          closest_(target, "find_node", FALSE, order) /\ OnlyLookup
    \/ \E msg \in DupMessages : \E order \in Orders :
          DhtMessage(msg, order) /\ OnlyLookup
    \/ \E q \in 1..Len(queries) : \E order \in Orders :
          DhtTimeout(q, order) /\ OnlyLookup

SpecDUP == LKInit /\ [][DUPNext]_vars

\* C36: the queries of one lookup go to different peers, and a peer that
\* is queried is strictly closer to the target than the largest distance
\* the queue of the closest held when the step that queries it began.
C36_QueriedOnce ==
    /\ [](\A i, j \in 1..Len(queries) :
            hash(queries[i].peer) = hash(queries[j].peer) => i = j)
    /\ [][lookup.status = "running"
            => \A q \in (Len(queries) + 1)..Len(queries') :
                  NumberLT(distance(queries'[q].peer.id, lookup.target),
                           PQMax(lookup.closest))]_vars


(***************************************************************************)
(* What the record operations leave alone (in SpecREC): the table with     *)
(* K = 1 and the two IDs that meet in a leaf that cannot be split, so that *)
(* contacts are recorded while an eviction is suspended on its ping, which  *)
(* no listener answers.                                                    *)
(***************************************************************************)
RecIds == {MkId(60, 228, 1), MkId(44, 4, 2)}

RECNext ==
    \/ \E id \in RecIds : recordQuery(id) /\ OnlyTable
    \/ \E id \in RecIds : recordResponse(id) /\ OnlyTable
    \/ \E id \in RecIds : recordNoResponse(id) /\ OnlyTable
    \/ \E i \in 1..Len(inflight) : PingTimeout(i) /\ OnlyTable
    \/ \E i \in 1..Len(inflight) : Resume(i) /\ OnlyTable
    \/ Tick /\ OnlyTable

SpecREC == RTInit /\ [][RECNext]_vars

\* the ID is that of a contact held by a bucket
Known(id) == \E o \in 1..Len(heap) : InTable(buckets, o) /\ heap[o].id = id

\* every Node object but o is as it was and none was constructed
OthersKept(o) ==
    /\ Len(heap') = Len(heap)
    /\ \A u \in 1..Len(heap) : u # o => heap'[u] = heap[u]

\* no contact was moved, no insertion started, resumed or ended, and no
\* 'ping' was emitted
TableKept ==
    /\ buckets' = buckets
    /\ nodeMap' = nodeMap
    /\ inflight' = inflight
    /\ last'.res # "ping"
    /\ localId' = localId
    /\ K' = K

\* C37: recordNoResponse for an ID that is not in the table changes
\* nothing; for a contact in the table recordQuery changes only its
\* lastReceivedQuery, recordResponse only its lastResponse and its
\* failedResponses, which becomes 0, and recordNoResponse only its
\* failedResponses; none of them moves a contact, touches another contact
\* or emits 'ping'.
C37_RecordsChangeOnlyWhatTheyName ==
    [][\A id \in RecIds :
          /\ (~Known(id) /\ ~NmHas(nodeMap, id) /\ recordNoResponse(id))
                => heap' = heap /\ TableKept
          /\ (Known(id) /\ recordQuery(id))
                => /\ NmHas(nodeMap, id)
                   /\ OthersKept(NmGet(nodeMap, id))
                   /\ heap'[NmGet(nodeMap, id)]
                         = [heap[NmGet(nodeMap, id)]
                               EXCEPT !.lastReceivedQuery = now]
                   /\ TableKept
          /\ (Known(id) /\ recordResponse(id))
                => /\ NmHas(nodeMap, id)
                   /\ OthersKept(NmGet(nodeMap, id))
                   /\ heap'[NmGet(nodeMap, id)]
                         = [heap[NmGet(nodeMap, id)]
                               EXCEPT !.lastResponse = now,
                                      !.failedResponses = 0]
                   /\ TableKept
          /\ (Known(id) /\ recordNoResponse(id))
                => /\ NmHas(nodeMap, id)
                   /\ OthersKept(NmGet(nodeMap, id))
                   /\ heap'[NmGet(nodeMap, id)].id = heap[NmGet(nodeMap, id)].id
                   /\ heap'[NmGet(nodeMap, id)].lastResponse
                         = heap[NmGet(nodeMap, id)].lastResponse
                   /\ heap'[NmGet(nodeMap, id)].lastReceivedQuery
                         = heap[NmGet(nodeMap, id)].lastReceivedQuery
                   /\ TableKept]_vars

\* the one contact ever recorded came in by a query, did not answer some
\* later query and then answered one
C37_Witness ==
    /\ Len(heap) = 1
    /\ inflight = <<>>
    /\ last = Quiet
    /\ Known(heap[1].id)
    /\ heap[1].lastReceivedQuery # Null
    /\ heap[1].lastResponse > heap[1].lastReceivedQuery
    /\ heap[1].failedResponses = 0


(***************************************************************************)
(* C38: datagrams that match no transaction, or are no reply (in SpecLK).  *)
(***************************************************************************)
\* C38: a response or an error whose transaction ID is not outstanding
\* settles no promise, clears no timer, wakes no lookup and leaves the
\* routing table as it is (handleNodeResponse_, the listener of 'response',
\* is not called); a query whose t is an outstanding transaction ID leaves
\* the transactions and their promises and timers as they are.
C38_UnmatchedIgnored ==
    [][rpcLast'.op = "message"
         => /\ (rpcLast'.msg.y \in {"r", "e"} /\ outstanding[rpcLast'.msg.t] = 0)
                  => /\ queries' = queries
                     /\ outstanding' = outstanding
                     /\ lookup' = lookup
                     /\ heap' = heap
                     /\ nodeMap' = nodeMap
                     /\ buckets' = buckets
                     /\ inflight' = inflight
            /\ (rpcLast'.msg.y = "q" /\ outstanding[rpcLast'.msg.t] # 0)
                  => /\ queries' = queries
                     /\ outstanding' = outstanding
                     /\ queries[outstanding[rpcLast'.msg.t]].promise.state
                           = "pending"
                     /\ lookup' = lookup]_vars

\* a second response to a transaction already answered has been handled,
\* by a peer the table does not hold
C38_Witness ==
    /\ rpcLast.op = "message"
    /\ rpcLast.msg.y = "r"
    /\ rpcLast.q = 0
    /\ rpcLast.msg.r.defined
    /\ \E q \in 1..Len(queries) :
          /\ queries[q].tid = rpcLast.msg.t
          /\ queries[q].promise.state = "fulfilled"
          /\ queries[q].promise.value.error = NoError
    /\ \A t \in Tids : outstanding[t] = 0
    /\ ~NmHas(nodeMap, rpcLast.msg.r.id)


(***************************************************************************)
(* Queries whose datagram cannot be sent (in SpecSEND): socket.send throws *)
(* synchronously, as dgram does for a socket that was closed or a port out *)
(* of range, inside inner(tid), the last statement of the executor of      *)
(* transact_'s promise.                                                    *)
(***************************************************************************)
SendFailed == Failure("Not running", 0, 0)

\* transact_ when inner(tid) throws: the transaction is registered and the
\* timer set by then, and the exception rejects the promise, which query
\* catches
transactThrows(s, peer, tid, ms) ==
    Socket(transact_(s, peer, tid, ms).out,
           [transact_(s, peer, tid, ms).qs EXCEPT
               ![Len(s.qs) + 1].promise = Fulfilled(Caught(SendFailed)),
               ![Len(s.qs) + 1].sent = 0])

\* query(peer, ..) on a socket whose send throws
queryUnsent(peer, tid) ==
    /\ Len(queries) < MaxQueries
    /\ tid \in FreeTids(Here)
    /\ Now(transactThrows(Here, peer, tid, RESPONSE_TIMEOUT_))
    /\ rpcLast' = Handled("query", NoMessage, Len(queries) + 1)
    /\ UNCHANGED <<RESPONSE_TIMEOUT_, rpcDisposed>>

SENDNext ==
    \/ \E peer \in KPeers : \E tid \in Tids : query(peer, tid) /\ OnlySocket
    \/ \E peer \in KPeers : \E tid \in Tids :
          queryUnsent(peer, tid) /\ OnlySocket
    \/ \E msg \in KMessages : handleMessage_(msg) /\ OnlySocket
    \/ \E q \in 1..Len(queries) : timeout(q) /\ OnlySocket
    \/ socketDispose /\ OnlySocket

SpecSEND == KRPCInit /\ [][SENDNext]_vars

\* C39: every outstanding transaction ID is that of a pending query, every
\* pending query is registered under exactly one transaction ID, its own;
\* and a query whose datagram could not be sent has no transaction
\* registered, no timer armed and no 'timeout' emitted for it.
C39_OutstandingIsPending ==
    /\ \A t \in Tids :
          outstanding[t] # 0
             => /\ outstanding[t] \in Qs
                /\ IsPending(outstanding[t])
                /\ queries[outstanding[t]].tid = t
    /\ \A q \in Qs :
          IsPending(q) => {t \in Tids : outstanding[t] = q} = {queries[q].tid}
    /\ \A q \in Qs :
          queries[q].sent = 0
             => /\ \A t \in Tids : outstanding[t] # q
                /\ queries[q].timer # "armed"
                /\ queries[q].timeouts = <<>>


(***************************************************************************)
(* RoutingTable.refresh (in SpecRF).  Math.random() is taken at its two    *)
(* ends, 0 and just below 1, once per byte; the bytes of one ID all draw   *)
(* low or all draw high.                                                   *)
(***************************************************************************)
\* per byte: TRUE for a draw just below 1, FALSE for the draw 0
Draws ==
    {[i \in 1..IdLen |-> FALSE],
     [i \in 1..IdLen |-> TRUE]}

\* the values refresh is called with: the default and the one of the test
Ttls == {GOODNESS_TIMEOUT, 0 - 1}

\* Math.floor(n * Math.random())
FloorOfDraw(n, high) ==
    IF ~high THEN 0 ELSE IF n > 0 THEN n - 1 ELSE n

\* rand_on_range(min, max): per byte, floor((d + 1 - min[i]) * random())
\* stored into a Uint8Array, then + min[i] stored again
rand_on_range(min, max, draw) ==
    [i \in 1..Len(max) |->
        ToUint8(ToUint8(FloorOfDraw(max[i] + 1 - min[i], draw[i])) + min[i])]

\* the loop of refresh over the queue of buckets: what it emits, in order
RECURSIVE RefreshFrom(_, _, _, _)
RefreshFrom(bk, queue, ttl, draws) ==
    IF queue = <<>> THEN <<>>
    ELSE IF bk[Head(queue)].split
    THEN RefreshFrom(bk, Tail(queue) \o <<Left(Head(queue)), Right(Head(queue))>>,
                     ttl, draws)
    ELSE IF bk[Head(queue)].lastChanged < now - ttl
    THEN <<[at |-> Head(queue),
            id |-> rand_on_range(bk[Head(queue)].min, bk[Head(queue)].max,
                                 draws[Head(queue)])]>>
            \o RefreshFrom(bk, Tail(queue), ttl, draws)
    ELSE RefreshFrom(bk, Tail(queue), ttl, draws)

\* the 'refresh' events of one call of refresh(ttl), with the leaf each was
\* emitted for
Refreshed(ttl, emitted) ==
    [op |-> "refresh", node |-> 0, at |-> Root, res |-> "none", ping |-> 0,
     ttl |-> ttl, emitted |-> emitted]

refresh(ttl, draws) ==
    /\ buckets # <<>>
    /\ last' = Refreshed(ttl, RefreshFrom(buckets, <<Root>>, ttl, draws))
    /\ UNCHANGED <<localId, K, isDisposed, now, heap, nodeMap, buckets,
                   inflight, misses>>

\* the leaves whose lastChanged is before now - ttl
Stale(ttl) == {p \in Leaves : buckets[p].lastChanged < now - ttl}

RFNext ==
    \/ \E id \in RecIds : recordQuery(id) /\ OnlyTable
    \/ \E id \in RecIds : recordResponse(id) /\ OnlyTable
    \/ Tick /\ OnlyTable
    \/ \E ttl \in Ttls : \E draws \in [Stale(ttl) -> Draws] :
          refresh(ttl, draws) /\ OnlyTable

SpecRF == RTInit /\ [][RFNext]_vars

\* C40: refresh(ttl) emits one 'refresh' for each leaf whose lastChanged is
\* before now - ttl and nothing else, and the ID of each event lies in the
\* range [min, max) of the leaf it was emitted for and in the range of no
\* other leaf.
C40_RefreshInRange ==
    last.op = "refresh"
       => /\ \A p \in Leaves :
                buckets[p].lastChanged < now - last.ttl
                   => Cardinality({i \in 1..Len(last.emitted) :
                                      last.emitted[i].at = p}) = 1
          /\ \A i \in 1..Len(last.emitted) :
                /\ last.emitted[i].at \in Leaves
                /\ buckets[last.emitted[i].at].lastChanged < now - last.ttl
                /\ InRange(last.emitted[i].id, last.emitted[i].at)
                /\ last.emitted[i].id # buckets[last.emitted[i].at].max
                /\ \A p \in Leaves \ {last.emitted[i].at} :
                      ~InRange(last.emitted[i].id, p)

====
